---- MODULE Spec2Model ----
(***************************************************************************)
(* Emergency alert aggregation: ingestion pipelines (five source          *)
(* adapters), natural-key deduplication, the interval scheduler and the   *)
(* classification worker, modelled from backend/app.                       *)
(*                                                                         *)
(* Conventions.  A Python Optional is a sequence of length 0 (None) or 1.  *)
(* A text built by an f-string is the sequence of its parts; an empty      *)
(* text stands for None and for '' alike (both are falsy in the code).     *)
(* Severity, urgency and event type are plain strings whose spelling is    *)
(* given by Chars.  A datetime is [hour, minute, second]; hour stands for  *)
(* the date and the hour of day together.  sha256 is taken to be           *)
(* injective, so a natural key is the key string it digests.  The store    *)
(* is available: a statement fails only on a constraint of models.py.      *)
(* The Alert columns summary, expires_at, url and raw_payload are written  *)
(* once with the row and read by nothing modelled here; they are left out. *)
(***************************************************************************)
EXTENDS Integers, Sequences, FiniteSets, TLC

\* ------------------------------------------------------------------ bounds
MaxItems == 2       \* items in one fetched envelope
MaxTicks == 1       \* seconds the wall clock advances
MaxRuns == 2        \* pipeline runs started (all adapters together)
MaxLimit == 2       \* the smaller limits a backlog pass is entered with
MaxCycles == 2      \* scheduler cycles started
MaxZones == 6       \* zone URLs one weather response names

\* ------------------------------------------------------- program constants
BucketMinutes == 10         \* dedupe.py: 10-minute buckets
SevereMagnitude == 60       \* ingest_usgs_eq.py: magnitude >= 6.0, in tenths
ModerateMagnitude == 45     \* ingest_usgs_eq.py: magnitude >= 4.5, in tenths
RationaleLimit == 1000      \* classify.py: rationale[:1000]
WorkerLimit == 10           \* classify.py: classify_unclassified_alerts(limit=10)

Adapters == {"NWS", "USGS_Earthquakes", "USGS_NWIS", "NASA_FIRMS", "WMATA"}

NoText == << >>
None == << >>
Some(x) == <<x>>
IsSome(o) == Len(o) = 1
Get(o) == o[1]

\* ------------------------------------------------------------------- time
Datetime(h, m, s) == [hour |-> h, minute |-> m, second |-> s]
ToSeconds(dt) == (dt.hour * 60 + dt.minute) * 60 + dt.second
PlusOneSecond(dt) ==
    IF dt.second < 59 THEN [dt EXCEPT !.second = dt.second + 1]
    ELSE IF dt.minute < 59 THEN [dt EXCEPT !.minute = dt.minute + 1, !.second = 0]
    ELSE Datetime(dt.hour + 1, 0, 0)

\* The clock starts two seconds before a 10-minute boundary.
ClockStart == Datetime(0, BucketMinutes - 1, 60 - MaxTicks)

\* A timestamp field of a feed: missing, present but unparsable, or ISO text.
TsAbsent == [kind |-> "absent", dt |-> Datetime(0, 0, 0)]
TsUnparsable == [kind |-> "unparsable", dt |-> Datetime(0, 0, 0)]
TsIso(dt) == [kind |-> "iso", dt |-> dt]

\* time_utils.parse_datetime
parse_datetime(ts) == IF ts.kind = "iso" THEN Some(ts.dt) ELSE None

\* ----------------------------------------------------------------- dedupe
\* A key that takes the timestamp as it is, without rounding it.
generate_natural_key_exact(source, provider_id, title, area, effective_at) ==
    IF provider_id # NoText
    THEN <<source, provider_id>>
    ELSE <<source, title, area, effective_at>>

\* The key string of generate_natural_key, before hashing.
generate_natural_key(source, provider_id, title, area, effective_at) ==
    IF provider_id # NoText
    THEN <<source, provider_id>>
    ELSE LET rounded_time ==
                 IF IsSome(effective_at)
                 THEN LET e == Get(effective_at)
                          minutes == e.minute - (e.minute % BucketMinutes)
                      IN  Some([e EXCEPT !.minute = minutes, !.second = 0])
                 ELSE None
         IN  <<source, title, area, rounded_time>>

\* ------------------------------------------------------------------ feeds
\* What the upstream services can serve: a few items per source, in the order
\* the service lists them; a response holds some of them, in that order.  shape is
\* "object" for a well-formed item, "not_object" for one that is not a JSON
\* object (item.get raises), "bad_field" for one whose field has the wrong
\* type (a later expression of normalize_item raises).
NwsItems ==
    << [shape |-> "object", id |-> <<"nws-1">>, headline |-> <<"Flood Warning issued">>,
       event |-> "Flood Warning", severity |-> "Severe", urgency |-> "Immediate",
       areaDesc |-> <<"Fairfax">>, effective |-> TsIso(Datetime(0, 3, 0))],
      [shape |-> "object", id |-> <<"nws-1">>, headline |-> <<"Flood Warning updated">>,
       event |-> "Flood Warning", severity |-> "Minor", urgency |-> "Future",
       areaDesc |-> <<"Fairfax">>, effective |-> TsIso(Datetime(0, 4, 0))],
      [shape |-> "object", id |-> NoText, headline |-> NoText,
       event |-> "Wind Advisory", severity |-> "Moderate", urgency |-> "Expected",
       areaDesc |-> <<"Arlington">>, effective |-> TsAbsent],
      [shape |-> "not_object", id |-> NoText, headline |-> NoText,
       event |-> "", severity |-> "", urgency |-> "",
       areaDesc |-> NoText, effective |-> TsAbsent] >>

UsgsItems ==
    << [shape |-> "object", id |-> <<"us7000">>, mag |-> Some([text |-> "3.0", tenths |-> 30]),
       place |-> <<"10km N of Reston">>, time |-> Some(Datetime(0, 2, 0))],
      [shape |-> "object", id |-> NoText, mag |-> Some([text |-> "6.2", tenths |-> 62]),
       place |-> <<"Mineral, Virginia">>, time |-> None],
      [shape |-> "not_object", id |-> NoText, mag |-> None,
       place |-> NoText, time |-> None] >>

NwisItems ==
    << [shape |-> "object", siteName |-> <<"Potomac River">>, siteCode |-> "01646500",
       variableName |-> "Gage height", variableCode |-> "00065",
       values |-> << [value |-> "3.2", dateTime |-> TsIso(Datetime(0, 5, 0))] >>],
      [shape |-> "object", siteName |-> <<"Potomac River">>, siteCode |-> "01646500",
       variableName |-> "Gage height", variableCode |-> "00065",
       values |-> << [value |-> "3.2", dateTime |-> TsIso(Datetime(0, 5, 0))],
                     [value |-> "4.1", dateTime |-> TsIso(Datetime(0, 25, 0))] >>],
      [shape |-> "object", siteName |-> <<"Cameron Run">>, siteCode |-> "01652500",
       variableName |-> "Discharge", variableCode |-> "00060",
       values |-> << [value |-> "9.9", dateTime |-> TsUnparsable] >>] >>

\* acq is what acq_date and acq_time parse to.
FiresItems ==
    << [shape |-> "object", latitude |-> "38.80", longitude |-> "-77.05",
       bright_ti4 |-> "330.1", confidence |-> "h", acq_date |-> "2024-05-01",
       acq_time |-> "0001", acq |-> TsIso(Datetime(0, 1, 0))],
      [shape |-> "object", latitude |-> "38.80", longitude |-> "-77.05",
       bright_ti4 |-> "", confidence |-> "n", acq_date |-> "2024-05-01",
       acq_time |-> "0a", acq |-> TsUnparsable],
      [shape |-> "not_object", latitude |-> "", longitude |-> "",
       bright_ti4 |-> "", confidence |-> "", acq_date |-> "",
       acq_time |-> "", acq |-> TsAbsent] >>

WmataItems ==
    << [shape |-> "object", IncidentID |-> <<"inc-1">>, IncidentType |-> "Delay",
       LinesAffected |-> <<"BL;">>],
      [shape |-> "object", IncidentID |-> NoText, IncidentType |-> "Alert",
       LinesAffected |-> <<"YL;">>],
      [shape |-> "bad_field", IncidentID |-> NoText, IncidentType |-> "",
       LinesAffected |-> NoText] >>

Items(a) ==
    CASE a = "NWS" -> NwsItems
      [] a = "USGS_Earthquakes" -> UsgsItems
      [] a = "USGS_NWIS" -> NwisItems
      [] a = "NASA_FIRMS" -> FiresItems
      [] a = "WMATA" -> WmataItems

RECURSIVE PickFrom(_, _, _)
PickFrom(cat, S, i) ==
    IF i > Len(cat) THEN << >>
    ELSE (IF i \in S THEN <<cat[i]>> ELSE << >>) \o PickFrom(cat, S, i + 1)

\* The responses of at most n items.
Listings(cat, n) ==
    { PickFrom(cat, S, 1) : S \in { T \in SUBSET (1..Len(cat)) : Cardinality(T) <= n } }

\* -------------------------------------------------------------- geo_utils
\* Coordinates are whole degrees; a result is a pair of fractions [n, d], so
\* that the mean of a ring is exact.  Members of a coordinate list are numbers.
LatMax == 90
LonMax == 180

\* A check that forgets the longitude.
validate_coordinates_lat_only(latitude, longitude) ==
    latitude >= -LatMax /\ latitude <= LatMax

\* geo_utils.validate_coordinates, for numbers
validate_coordinates(latitude, longitude) ==
    /\ latitude >= -LatMax /\ latitude <= LatMax
    /\ longitude >= -LonMax /\ longitude <= LonMax

\* (lat, lon) of a [lon, lat, ...] list
PairOf(point) == [lat |-> [n |-> point[2], d |-> 1], lon |-> [n |-> point[1], d |-> 1]]

\* isinstance(point, list) and len(point) >= 2 and validate_coordinates(lat, lon)
ValidPoint(point) == Len(point) >= 2 /\ validate_coordinates(point[2], point[1])

RECURSIVE SumOf(_, _)
SumOf(points, k) ==
    IF points = << >> THEN 0 ELSE points[1][k] + SumOf(Tail(points), k)

\* A Polygon branch that always takes the mean of the ring's valid points.
PolygonPoint_centroid(coords) ==
    LET ring == coords[1]
        valid == SelectSeq(ring, ValidPoint)
        count == Len(valid)
    IN  IF count > 0
        THEN Some([lat |-> [n |-> SumOf(valid, 2), d |-> count],
                   lon |-> [n |-> SumOf(valid, 1), d |-> count]])
        ELSE None

\* The Polygon branch on truthy coordinates: the first point of the first
\* ring if it is valid, otherwise the mean of the ring's valid points.
PolygonPoint(coords) ==
    LET ring == coords[1]
        valid == SelectSeq(ring, ValidPoint)
        count == Len(valid)
    IN  IF Len(ring) > 0 /\ ValidPoint(ring[1]) THEN Some(PairOf(ring[1]))
        ELSE IF count > 0
        THEN Some([lat |-> [n |-> SumOf(valid, 2), d |-> count],
                   lon |-> [n |-> SumOf(valid, 1), d |-> count]])
        ELSE None

\* str.lower() of the geometry's type
GeomType(type) ==
    CASE type \in {"Point", "point"} -> "point"
      [] type \in {"Polygon", "polygon"} -> "polygon"
      [] type \in {"MultiPolygon", "multipolygon"} -> "multipolygon"
      [] OTHER -> "other"

\* geo_utils.extract_point_from_geometry.  form: "none" (None, {} or ""),
\* "bad_string" (a string that is no JSON), "dict" (a dict, or a string that
\* json.loads turns into one), "list".
extract_point_from_geometry(geometry) ==
    CASE geometry.form \in {"none", "bad_string"} -> None
      [] geometry.form = "list" ->
            IF ValidPoint(geometry.coordinates) THEN Some(PairOf(geometry.coordinates))
            ELSE None
      [] OTHER ->
            LET geom_type == GeomType(geometry.type)
                coords == geometry.coordinates
            IN  IF coords = << >> THEN None
                ELSE IF geom_type = "point"
                THEN IF ValidPoint(coords) THEN Some(PairOf(coords)) ELSE None
                ELSE IF geom_type = "polygon" THEN PolygonPoint(coords)
                ELSE IF geom_type = "multipolygon"
                THEN IF coords[1] = << >> THEN None ELSE PolygonPoint(coords[1])
                ELSE None

\* ------------------------------------------------------------- text tables
\* The spelling of the strings that the keyword rules search.
Chars(s) ==
    CASE s = "" -> << >>
      [] s = "Severe" -> <<"S","e","v","e","r","e">>
      [] s = "Pentagon" -> <<"P","e","n","t","a","g","o","n">>
      [] s = "pentagon" -> <<"p","e","n","t","a","g","o","n">>
      [] s = "King St" -> <<"K","i","n","g"," ","S","t">>
      [] s = "king st" -> <<"k","i","n","g"," ","s","t">>
      [] s = "Union Station" -> <<"U","n","i","o","n"," ","S","t","a","t","i","o","n">>
      [] s = "Delay at Pentagon" ->
            <<"D","e","l","a","y"," ","a","t"," ","P","e","n","t","a","g","o","n">>
      [] s = "Extreme" -> <<"E","x","t","r","e","m","e">>
      [] s = "Unknown" -> <<"U","n","k","n","o","w","n">>
      [] s = "Flood Watch" -> <<"F","l","o","o","d"," ","W","a","t","c","h">>
      [] s = "Moderate" -> <<"M","o","d","e","r","a","t","e">>
      [] s = "Minor" -> <<"M","i","n","o","r">>
      [] s = "Immediate" -> <<"I","m","m","e","d","i","a","t","e">>
      [] s = "Expected" -> <<"E","x","p","e","c","t","e","d">>
      [] s = "Future" -> <<"F","u","t","u","r","e">>
      [] s = "Flood Warning" -> <<"F","l","o","o","d"," ","W","a","r","n","i","n","g">>
      [] s = "Wind Advisory" -> <<"W","i","n","d"," ","A","d","v","i","s","o","r","y">>
      [] s = "Earthquake" -> <<"E","a","r","t","h","q","u","a","k","e">>
      [] s = "River Level" -> <<"R","i","v","e","r"," ","L","e","v","e","l">>
      [] s = "Fire" -> <<"F","i","r","e">>
      [] s = "Transit" -> <<"T","r","a","n","s","i","t">>
      [] s = "Delay" -> <<"D","e","l","a","y">>
      [] s = "Alert" -> <<"A","l","e","r","t">>
      [] s = "Major Delay" -> <<"M","a","j","o","r"," ","D","e","l","a","y">>
      [] s = "Service Suspended" ->
            <<"S","e","r","v","i","c","e"," ","S","u","s","p","e","n","d","e","d">>
      [] s = "Station Closure" ->
            <<"S","t","a","t","i","o","n"," ","C","l","o","s","u","r","e">>
      [] s = "Single Tracking" ->
            <<"S","i","n","g","l","e"," ","T","r","a","c","k","i","n","g">>
      [] s = "Disabled Train" ->
            <<"D","i","s","a","b","l","e","d"," ","T","r","a","i","n">>
      [] s = "Suspended, Disabled Train" ->
            <<"S","u","s","p","e","n","d","e","d",","," ",
              "D","i","s","a","b","l","e","d"," ","T","r","a","i","n">>
      [] s = "Elevator Outage" ->
            <<"E","l","e","v","a","t","o","r"," ","O","u","t","a","g","e">>
      [] s = "h" -> <<"h">>
      [] s = "n" -> <<"n">>
      [] s = "extreme" -> <<"e","x","t","r","e","m","e">>
      [] s = "severe" -> <<"s","e","v","e","r","e">>
      [] s = "immediate" -> <<"i","m","m","e","d","i","a","t","e">>
      [] s = "warning" -> <<"w","a","r","n","i","n","g">>
      [] s = "earthquake" -> <<"e","a","r","t","h","q","u","a","k","e">>
      [] s = "moderate" -> <<"m","o","d","e","r","a","t","e">>
      [] s = "advisory" -> <<"a","d","v","i","s","o","r","y">>
      [] s = "expected" -> <<"e","x","p","e","c","t","e","d">>
      [] s = "watch" -> <<"w","a","t","c","h">>
      [] s = "delay" -> <<"d","e","l","a","y">>
      [] s = "single tracking" -> <<"s","i","n","g","l","e"," ","t","r","a","c","k","i","n","g">>
      [] s = "disabled train" -> <<"d","i","s","a","b","l","e","d"," ","t","r","a","i","n">>
      [] s = "suspended" -> <<"s","u","s","p","e","n","d","e","d">>
      [] s = "major delay" -> <<"m","a","j","o","r"," ","d","e","l","a","y">>
      [] s = "station closure" -> <<"s","t","a","t","i","o","n"," ","c","l","o","s","u","r","e">>
      [] s = "high" -> <<"h","i","g","h">>
      [] s = "nominal" -> <<"n","o","m","i","n","a","l">>

LowerChar(c) ==
    CASE c = "A" -> "a" [] c = "C" -> "c" [] c = "D" -> "d" [] c = "E" -> "e"
      [] c = "F" -> "f"
      [] c = "I" -> "i" [] c = "K" -> "k" [] c = "L" -> "l" [] c = "M" -> "m"
      [] c = "O" -> "o" [] c = "P" -> "p" [] c = "R" -> "r"
      [] c = "S" -> "s" [] c = "T" -> "t" [] c = "U" -> "u" [] c = "W" -> "w"
      [] OTHER -> c

\* str.lower(), on the spelling
Lower(s) == [i \in 1..Len(Chars(s)) |-> LowerChar(Chars(s)[i])]

\* `w in text` for a lower-cased text and a keyword w
Contains(text, w) ==
    LET k == Chars(w)
    IN  \E i \in 1..(Len(text) - Len(k) + 1) : SubSeq(text, i, i + Len(k) - 1) = k

AnyIn(text, words) == \E w \in words : Contains(text, w)

\* ------------------------------------------------------ normalize_item (x5)
Normalized(source, provider_id, title, event_type, severity, urgency, area, effective_at) ==
    [source |-> source, provider_id |-> provider_id, title |-> title,
     event_type |-> event_type, severity |-> severity, urgency |-> urgency,
     area |-> area, effective_at |-> effective_at]

\* IngestNWS.normalize_item: any exception inside yields None.
NormalizeNWS(item, utc_now) ==
    IF item.shape # "object" THEN None
    ELSE LET title == IF item.headline # NoText THEN item.headline
                      ELSE IF item.event # "" THEN <<item.event>>
                      ELSE <<"NWS Alert">>
             parsed == parse_datetime(item.effective)
             effective_at == IF IsSome(parsed) THEN parsed ELSE Some(utc_now)
             area == IF item.areaDesc # NoText THEN item.areaDesc ELSE <<"Alexandria area">>
         IN  Some(Normalized("NWS", item.id, title, item.event, item.severity,
                             item.urgency, area, effective_at))

\* IngestUSGSEarthquakes.normalize_item
NormalizeUSGS(item, utc_now) ==
    IF item.shape # "object" THEN None
    ELSE LET mag_display == IF IsSome(item.mag) THEN <<"M", Get(item.mag).text>> ELSE <<"M?">>
             severity == IF IsSome(item.mag)
                         THEN IF Get(item.mag).tenths >= SevereMagnitude THEN "Severe"
                              ELSE IF Get(item.mag).tenths >= ModerateMagnitude THEN "Moderate"
                              ELSE "Minor"
                         ELSE "Minor"
             place == IF item.place # NoText THEN item.place ELSE <<"Unknown location">>
             effective_at == IF IsSome(item.time) THEN item.time ELSE Some(utc_now)
         IN  Some(Normalized("USGS_Earthquakes", item.id,
                             mag_display \o <<" Earthquake - ">> \o place,
                             "Earthquake", severity, "Immediate", place, effective_at))

\* IngestNWIS.normalize_item: no values -> None; the latest value's dateTime
\* is parsed when present, and an unparsable one leaves effective_at None.
NormalizeNWIS(item, utc_now) ==
    IF item.shape # "object" THEN None
    ELSE IF item.values = << >> THEN None
    ELSE LET latest == item.values[Len(item.values)]
             effective_at == IF latest.dateTime.kind # "absent"
                             THEN parse_datetime(latest.dateTime)
                             ELSE Some(utc_now)
         IN  Some(Normalized("USGS_NWIS", <<item.siteCode, "_", item.variableCode>>,
                             <<"River ", item.variableName, " - ">> \o item.siteName,
                             "River Level", "Moderate", "Expected", item.siteName,
                             effective_at))

\* IngestFires.normalize_item
\* A normalization that drops a detection whose acquisition time does not parse.
NormalizeFires_strict(item, utc_now) ==
    IF item.shape # "object" \/ item.acq.kind = "unparsable" THEN None
    ELSE Some(Normalized("NASA_FIRMS",
                         <<item.latitude, "_", item.longitude, "_", item.acq_date,
                           "_", item.acq_time>>,
                         <<"Thermal Anomaly Detected">>, "Fire", "Minor", "Immediate",
                         <<"Lat: ", item.latitude, ", Lon: ", item.longitude>>,
                         IF item.acq.kind = "iso" THEN Some(item.acq.dt) ELSE Some(utc_now)))

NormalizeFires(item, utc_now) ==
    IF item.shape # "object" THEN None
    ELSE LET effective_at == IF item.acq.kind = "iso" THEN Some(item.acq.dt) ELSE Some(utc_now)
             conf_lower == Lower(item.confidence)
             severity == IF Contains(conf_lower, "high") \/ conf_lower = Chars("h") THEN "Severe"
                         ELSE IF Contains(conf_lower, "nominal") \/ conf_lower = Chars("n")
                         THEN "Moderate"
                         ELSE "Minor"
             title == <<"Thermal Anomaly Detected">>
                      \o (IF item.bright_ti4 # "" THEN <<" (Brightness: ", item.bright_ti4, "K)">>
                          ELSE << >>)
             location == <<"Lat: ", item.latitude, ", Lon: ", item.longitude>>
         IN  Some(Normalized("NASA_FIRMS",
                             <<item.latitude, "_", item.longitude, "_", item.acq_date,
                               "_", item.acq_time>>,
                             title, "Fire", severity, "Immediate", location, effective_at))

\* IngestWMATA.normalize_item: effective_at is the time of normalization.
NormalizeWMATA(item, utc_now) ==
    IF item.shape # "object" THEN None
    ELSE LET incident_lower == Lower(item.IncidentType)
             severity ==
                 IF AnyIn(incident_lower, {"delay", "single tracking", "disabled train"})
                 THEN "Moderate"
                 ELSE IF AnyIn(incident_lower, {"suspended", "major delay", "station closure"})
                 THEN "Severe"
                 ELSE "Minor"
             area == IF item.LinesAffected # NoText THEN item.LinesAffected
                     ELSE <<"WMATA Metro">>
         IN  Some(Normalized("WMATA", item.IncidentID,
                             <<"Transit Incident - ", item.IncidentType>>,
                             "Transit", severity, "Immediate", area, Some(utc_now)))

normalize_item(a, item, utc_now) ==
    CASE a = "NWS" -> NormalizeNWS(item, utc_now)
      [] a = "USGS_Earthquakes" -> NormalizeUSGS(item, utc_now)
      [] a = "USGS_NWIS" -> NormalizeNWIS(item, utc_now)
      [] a = "NASA_FIRMS" -> NormalizeFires(item, utc_now)
      [] a = "WMATA" -> NormalizeWMATA(item, utc_now)

\* ------------------------------------------- coordinates of normalize_item
Fraction(n, d) == [n |-> n, d |-> d]

\* settings.ALEXANDRIA_CENTER_LAT, ALEXANDRIA_CENTER_LON
AlexandriaCenter ==
    [lat |-> Fraction(388048, 10000), lon |-> Fraction(-770469, 10000)]

\* The centre of Virginia that IngestNWS uses in TEST_MODE
VirginiaCenter == [lat |-> Fraction(375, 10), lon |-> Fraction(-790, 10)]

\* A resolution in which the zone table overrides the alert's own geometry.
NwsCoordinates_zone_first(item, zone_coords_cache, test_mode) ==
    LET affected_zones == item.affectedZones
    IN  IF affected_zones # << >> /\ affected_zones[1] \in DOMAIN zone_coords_cache
        THEN zone_coords_cache[affected_zones[1]]
        ELSE IF IsSome(extract_point_from_geometry(item.geometry))
        THEN Get(extract_point_from_geometry(item.geometry))
        ELSE IF test_mode THEN VirginiaCenter ELSE AlexandriaCenter

\* IngestNWS.normalize_item, latitude and longitude: the alert's geometry, else
\* the first affected zone's entry in the zone table, else the fixed centre.
NwsCoordinates(item, zone_coords_cache, test_mode) ==
    LET geometry == item.geometry
        coords == IF geometry.form # "none" THEN extract_point_from_geometry(geometry)
                  ELSE None
        affected_zones == item.affectedZones
    IN  IF IsSome(coords) THEN Get(coords)
        ELSE IF /\ affected_zones # << >>
                /\ DOMAIN zone_coords_cache # {}
                /\ affected_zones[1] \in DOMAIN zone_coords_cache
        THEN zone_coords_cache[affected_zones[1]]
        ELSE IF test_mode THEN VirginiaCenter ELSE AlexandriaCenter

\* `k in text` for two spellings
SubString(k, text) ==
    \E i \in 1..(Len(text) - Len(k) + 1) : SubSeq(text, i, i + Len(k) - 1) = k

\* IngestWMATA._find_station_coordinates: the entry of that name, else the
\* first entry (in the table's order) whose name contains it or is contained.
find_station_coordinates(station_name, stations_cache) ==
    LET station_lower == Lower(station_name)
        exact == { i \in DOMAIN stations_cache : Chars(stations_cache[i].name) = station_lower }
        partial == { i \in DOMAIN stations_cache :
                       \/ SubString(station_lower, Chars(stations_cache[i].name))
                       \/ SubString(Chars(stations_cache[i].name), station_lower) }
        First(S) == CHOOSE i \in S : \A j \in S : i <= j
        Coords(i) == [lat |-> stations_cache[i].lat, lon |-> stations_cache[i].lon]
    IN  IF station_name = "" \/ stations_cache = << >> THEN None
        ELSE IF exact # {} THEN Some(Coords(First(exact)))
        ELSE IF partial # {} THEN Some(Coords(First(partial)))
        ELSE None

\* IngestWMATA._extract_station_name: the first run of letters and spaces
\* that starts with a capital, without a trailing 's, if longer than 3.
extract_station_name(text) ==
    CASE text = "Pentagon's platform is closed" -> "Pentagon"
      [] text = "Delay at Pentagon" -> "Delay at Pentagon"
      [] OTHER -> ""

\* IngestWMATA.normalize_item, latitude and longitude: the start station,
\* else the end station, else a station named in the description, else the
\* fixed centre.
WmataCoordinates(item, stations_cache) ==
    LET start == IF stations_cache # << >> /\ item.StartLocationFullName # ""
                 THEN find_station_coordinates(item.StartLocationFullName, stations_cache)
                 ELSE None
        end == IF IsSome(start) THEN start
               ELSE IF stations_cache # << >> /\ item.EndLocationFullName # ""
               THEN find_station_coordinates(item.EndLocationFullName, stations_cache)
               ELSE None
        station_name == extract_station_name(item.Description)
        described == IF IsSome(end) THEN end
                     ELSE IF stations_cache # << >> /\ station_name # ""
                     THEN find_station_coordinates(station_name, stations_cache)
                     ELSE None
    IN  IF IsSome(described) THEN Get(described) ELSE AlexandriaCenter

\* normalize_item of IngestNWS and IngestWMATA with the side table their run()
\* passes: the normalized fields and the latitude and longitude keys.
normalize_item_cached(a, item, cache, test_mode, utc_now) ==
    LET normalized == normalize_item(a, item, utc_now)
        coords == IF a = "NWS" THEN NwsCoordinates(item, cache, test_mode)
                  ELSE WmataCoordinates(item, cache)
    IN  IF IsSome(normalized)
        THEN Some([latitude |-> Some(coords.lat), longitude |-> Some(coords.lon)]
                  @@ Get(normalized))
        ELSE None

\* ------------------------------------------------------------ upsert_alert
\* The row Alert(...) of upsert_alert; created_at is the store's now().
AlertRow(store, normalized, natural_key, created_at) ==
    [id |-> Len(store) + 1, natural_key |-> natural_key,
     source |-> normalized.source, provider_id |-> normalized.provider_id,
     title |-> normalized.title, event_type |-> normalized.event_type,
     severity |-> normalized.severity, urgency |-> normalized.urgency,
     area |-> normalized.area, effective_at |-> normalized.effective_at,
     created_at |-> created_at]

\* A table without the unique constraint on natural_key.
UniqueViolation_off(store, natural_key) == FALSE

\* models.Alert: natural_key is unique
UniqueViolation(store, natural_key) ==
    \E i \in DOMAIN store : store[i].natural_key = natural_key

\* models.Alert: effective_at is NOT NULL (source and title are never None)
NotNullViolation(normalized) == ~IsSome(normalized.effective_at)

\* A store that replaces the row of a key it already holds.
upsert_alert_overwrite(store, normalized, db_now) ==
    LET natural_key == generate_natural_key(normalized.source, normalized.provider_id,
                                            normalized.title, normalized.area,
                                            normalized.effective_at)
        alert == AlertRow(store, normalized, natural_key, db_now)
    IN  IF NotNullViolation(normalized)
        THEN [store |-> store, alert |-> None]
        ELSE IF UniqueViolation(store, natural_key)
        THEN LET i == CHOOSE j \in DOMAIN store : store[j].natural_key = natural_key
             IN  [store |-> [store EXCEPT ![i] = [alert EXCEPT !.id = i]], alert |-> None]
        ELSE [store |-> Append(store, alert), alert |-> Some(alert)]

\* add + commit; an IntegrityError rolls back and yields None.
upsert_alert(store, normalized, db_now) ==
    LET natural_key == generate_natural_key(normalized.source, normalized.provider_id,
                                            normalized.title, normalized.area,
                                            normalized.effective_at)
        alert == AlertRow(store, normalized, natural_key, db_now)
    IN  IF UniqueViolation(store, natural_key) \/ NotNullViolation(normalized)
        THEN [store |-> store, alert |-> None]
        ELSE [store |-> Append(store, alert), alert |-> Some(alert)]

\* Which branch of upsert_alert ends the call.  The database raises
\* IntegrityError for a violated constraint, unique or NOT NULL alike, and the
\* first handler takes it ("Duplicate alert ignored", at debug level); the
\* second handler takes every other exception ("Error inserting alert", at
\* error level), here a database that cannot be reached (db_error).
upsert_handler(store, normalized, db_error) ==
    LET natural_key == generate_natural_key(normalized.source, normalized.provider_id,
                                            normalized.title, normalized.area,
                                            normalized.effective_at)
    IN  IF db_error THEN "error"
        ELSE IF UniqueViolation(store, natural_key) \/ NotNullViolation(normalized)
        THEN "duplicate"
        ELSE "inserted"

\* ------------------------------------------------------------------ state
VARIABLES
    alerts,          \* table alerts, in insertion order
    classifications, \* table classifications, in insertion order
    now,             \* the wall clock
    feed,            \* per adapter: the body its upstream service serves now
    run,             \* per adapter: the position and locals of service.run()
    runs,            \* pipeline runs started so far
    worker,          \* the position and locals of classification_worker()
    cycle,           \* the position of run_all_ingestions()
    app,             \* the FastAPI process: its handlers, scheduler and worker task
    call             \* a function under check: its arguments and its result

\* No process around the pipelines (a service module run on its own).
NoApp == [pc |-> "none", scheduler |-> "none", task |-> "none", calls |-> 0]

\* No function is under check.
NoCall == [fn |-> "none"]

\* The bodies a service can serve: falsy, without the items key, malformed,
\* or a listing.
Bodies(a) ==
    { [kind |-> k, items |-> << >>] : k \in {"empty", "no_items_key", "malformed"} }
    \cup { [kind |-> "ok", items |-> its] : its \in Listings(Items(a), MaxItems) }

EmptyBody == [kind |-> "empty", items |-> << >>]

\* How one call of fetch_raw_data can end.
FetchOutcomes(a) ==
    {"response", "http_error"}
    \cup (IF a \in {"NASA_FIRMS", "WMATA"} THEN {"no_credential"} ELSE {})

\* fetch_raw_data: a missing key or any exception yields None.
fetch_raw_data(a, outcome) ==
    IF outcome = "response" THEN Some(feed[a]) ELSE None

\* `not raw_data`
Falsy(raw_data) == ~IsSome(raw_data) \/ Get(raw_data).kind = "empty"

\* extract_items: [raised, items].  A body without the items key yields [];
\* a malformed body raises, except in IngestFires, which catches and yields [].
extract_items(a, raw_data) ==
    CASE raw_data.kind = "ok" -> [raised |-> FALSE, items |-> raw_data.items]
      [] raw_data.kind = "malformed" /\ a # "NASA_FIRMS" -> [raised |-> TRUE, items |-> << >>]
      [] OTHER -> [raised |-> FALSE, items |-> << >>]

\* The result of run(): the integer returned, or an exception leaving run().
Returned(n) == [raised |-> FALSE, value |-> Some(n)]
Escaped == [raised |-> TRUE, value |-> None]
Pending == [raised |-> FALSE, value |-> None]

\* A handler that logs and re-raises.
run_reraise == Escaped

\* run(): except Exception -> log, return 0
run_except == Returned(0)

\* A loop that counts every item it reaches.
CountedAlways(alert) == 1

\* if alert: new_count += 1
Counted(alert) == IF IsSome(alert) THEN 1 ELSE 0

\* pc: idle, stations, fetch, cache, loop, done.  raw: what the last fetch
\* returned.  added: rows this run put into alerts.  repeat: this run fetched
\* the body its previous run fetched.
IdleRun ==
    [pc |-> "idle", raw |-> None, idx |-> 1, new_count |-> 0, ret |-> Pending,
     added |-> 0, repeat |-> FALSE]

\* The items of the run in progress (or of the last run).
ItemsOf(a) ==
    IF IsSome(run[a].raw) THEN extract_items(a, Get(run[a].raw)).items ELSE << >>

\* A coroutine inside a stretch of run() without an await holds the event loop.
InLoop(a) == run[a].pc = "loop"
LoopFree(a) == \A b \in Adapters \ {a} : ~InLoop(b)

\* service.run() is entered; WMATA first awaits its station table.
BeginRun(a) ==
    [IdleRun EXCEPT !.pc = IF a = "WMATA" THEN "stations" ELSE "fetch",
                    !.raw = run[a].raw]

\* A pipeline is started on its own (the module's command-line entry).
StartRun(a) ==
    /\ run[a].pc \in {"idle", "done"}
    /\ LoopFree(a)
    /\ runs < MaxRuns
    /\ run' = [run EXCEPT ![a] = BeginRun(a)]
    /\ runs' = runs + 1
    /\ UNCHANGED <<call, app, alerts, classifications, now, feed, worker, cycle>>

\* IngestWMATA._fetch_stations_cache returns (a table or {}; it never raises).
FetchStationsCache(a) ==
    /\ a = "WMATA"
    /\ run[a].pc = "stations"
    /\ LoopFree(a)
    /\ run' = [run EXCEPT ![a].pc = "fetch"]
    /\ UNCHANGED <<call, app, alerts, classifications, now, feed, runs, worker, cycle>>

\* run() from the return of fetch_raw_data up to its next await or its return.
AfterFetch(a, outcome) ==
    LET raw_data == fetch_raw_data(a, outcome)
        r == [run[a] EXCEPT !.raw = raw_data,
                            !.repeat = (IsSome(raw_data) /\ run[a].raw = raw_data)]
    IN  IF Falsy(raw_data)
        THEN [r EXCEPT !.pc = "done", !.ret = Returned(0)]
        ELSE LET ex == extract_items(a, Get(raw_data))
             IN  IF ex.raised
                 THEN [r EXCEPT !.pc = "done", !.ret = run_except]
                 ELSE IF ex.items = << >>
                 THEN [r EXCEPT !.pc = "done", !.ret = Returned(0)]
                 ELSE IF a = "NWS"
                 THEN [r EXCEPT !.pc = "cache"]
                 ELSE [r EXCEPT !.pc = "loop", !.idx = 1, !.new_count = 0]

FetchReturns(a) ==
    /\ run[a].pc = "fetch"
    /\ LoopFree(a)
    /\ \E outcome \in FetchOutcomes(a) : run' = [run EXCEPT ![a] = AfterFetch(a, outcome)]
    /\ UNCHANGED <<call, app, alerts, classifications, now, feed, runs, worker, cycle>>

\* IngestNWS._prepare_zone_cache reads item.get('properties') of every item:
\* an item that is no object makes it raise, and run() returns 0.
ZoneCacheRaises(items) == \E i \in DOMAIN items : items[i].shape = "not_object"

PrepareZoneCache(a) ==
    /\ a = "NWS"
    /\ run[a].pc = "cache"
    /\ LoopFree(a)
    /\ run' = [run EXCEPT ![a] =
                 IF ZoneCacheRaises(ItemsOf(a))
                 THEN [@ EXCEPT !.pc = "done", !.ret = run_except]
                 ELSE [@ EXCEPT !.pc = "loop", !.idx = 1, !.new_count = 0]]
    /\ UNCHANGED <<call, app, alerts, classifications, now, feed, runs, worker, cycle>>

\* One pass of `for item in items`: normalize, upsert, count; after the last
\* item run() returns new_count.
ProcessItem(a) ==
    /\ run[a].pc = "loop"
    /\ LET item == ItemsOf(a)[run[a].idx]
           normalized == normalize_item(a, item, now)
           up == IF IsSome(normalized) THEN upsert_alert(alerts, Get(normalized), now)
                 ELSE [store |-> alerts, alert |-> None]
           new_count == run[a].new_count + Counted(up.alert)
           last == run[a].idx = Len(ItemsOf(a))
       IN  /\ alerts' = up.store
           /\ run' = [run EXCEPT ![a] =
                        [@ EXCEPT !.idx = @ + 1,
                                  !.new_count = new_count,
                                  !.added = @ + (Len(up.store) - Len(alerts)),
                                  !.pc = IF last THEN "done" ELSE "loop",
                                  !.ret = IF last THEN Returned(new_count) ELSE Pending]]
    /\ UNCHANGED <<call, app, classifications, now, feed, runs, worker, cycle>>

\* The wall clock advances.
Tick ==
    /\ ToSeconds(now) - ToSeconds(ClockStart) < MaxTicks
    /\ now' = PlusOneSecond(now)
    /\ UNCHANGED <<call, app, alerts, classifications, feed, run, runs, worker, cycle>>

\* ------------------------------------------------------------ classify.py
MODEL_NAME == "llama3.2:3b-instruct-q4"
RulesFallback == "rules-fallback"
Criticalities == {"High", "Medium", "Low"}

Text(t, n) == [kind |-> "string", text |-> t, len |-> n]
NoRationale == [kind |-> "absent", text |-> "", len |-> 0]
NullRationale == [kind |-> "null", text |-> "", len |-> 0]

\* What the chat-completions call can come back with.
Reply(kind, criticality, rationale) ==
    [kind |-> kind, criticality |-> criticality, rationale |-> rationale]

Replies ==
    { Reply(k, "", NoRationale) :
        k \in {"transport_error", "empty", "malformed_json", "not_object"} }
    \cup { Reply("object", "Critical", Text("llm", 80)),
           Reply("object", "Medium", Text("llm", RationaleLimit + 200)),
           Reply("object", "High", NoRationale),
           Reply("object", "High", NullRationale) }

\* A rule tier that tests the Medium rules before the High rules.
classify_by_rules_medium_first(alert) ==
    LET severity == Lower(alert.severity)
        urgency == Lower(alert.urgency)
        event_type == Lower(alert.event_type)
        Result(c, t, n) == [criticality |-> c, rationale |-> Text(t, n)]
    IN  IF AnyIn(severity, {"moderate", "advisory"})
        THEN Result("Medium", "Moderate severity.", 18)
        ELSE IF AnyIn(urgency, {"expected", "watch", "moderate"})
        THEN Result("Medium", "Expected urgency level.", 23)
        ELSE IF AnyIn(severity, {"extreme", "severe"})
        THEN Result("High", "Severe severity level detected.", 31)
        ELSE IF AnyIn(urgency, {"immediate", "warning"})
        THEN Result("High", "Immediate urgency detected.", 27)
        ELSE IF Contains(event_type, "earthquake") /\ ~Contains(severity, "moderate")
        THEN Result("High", "Earthquake event detected.", 26)
        ELSE Result("Low", "Low risk - monitoring only.", 27)

\* classify_by_rules
classify_by_rules(alert) ==
    LET severity == Lower(alert.severity)
        urgency == Lower(alert.urgency)
        event_type == Lower(alert.event_type)
        Result(c, t, n) == [criticality |-> c, rationale |-> Text(t, n)]
    IN  IF AnyIn(severity, {"extreme", "severe"})
        THEN Result("High", "Severe severity level detected.", 31)
        ELSE IF AnyIn(urgency, {"immediate", "warning"})
        THEN Result("High", "Immediate urgency detected.", 27)
        ELSE IF Contains(event_type, "earthquake") /\ ~Contains(severity, "moderate")
        THEN Result("High", "Earthquake event detected.", 26)
        ELSE IF AnyIn(severity, {"moderate", "advisory"})
        THEN Result("Medium", "Moderate severity.", 18)
        ELSE IF AnyIn(urgency, {"expected", "watch", "moderate"})
        THEN Result("Medium", "Expected urgency level.", 23)
        ELSE Result("Low", "Low risk - monitoring only.", 27)

\* classify_with_llm from the return of the API call: every exception inside
\* (the call failing, an empty reply, json.loads, result.get on a non-object,
\* a criticality outside the three) yields None.
classify_with_llm(reply) ==
    IF reply.kind = "object" /\ reply.criticality \in Criticalities
    THEN Some([criticality |-> reply.criticality, rationale |-> reply.rationale])
    ELSE None

\* A tag that names the configured model whatever tier answered.
model_version_configured(result) == MODEL_NAME

\* model_version = settings.MODEL_NAME if result else "rules-fallback"
model_version(result) == IF IsSome(result) THEN MODEL_NAME ELSE RulesFallback

\* result.get("rationale", "")[:1000]: slicing None raises TypeError.
rationale_of(result) ==
    CASE result.rationale.kind = "absent" -> [raised |-> FALSE, value |-> Text("", 0)]
      [] result.rationale.kind = "null" -> [raised |-> TRUE, value |-> Text("", 0)]
      [] OTHER -> [raised |-> FALSE,
                   value |-> [result.rationale EXCEPT
                                !.len = IF @ > RationaleLimit THEN RationaleLimit ELSE @]]

\* classify_alert from the return of classify_with_llm: [raised, row].
classify_alert(alert, reply, rows) ==
    LET llm == classify_with_llm(reply)
        result == IF IsSome(llm) THEN Get(llm) ELSE classify_by_rules(alert)
        rationale == rationale_of(result)
    IN  [raised |-> rationale.raised,
         row |-> [id |-> Len(rows) + 1, alert_id |-> alert.id,
                  criticality |-> result.criticality, rationale |-> rationale.value,
                  model_version |-> model_version(llm)]]

\* A query without the filter on Classification.id.
Unclassified_nofilter(store, rows) == DOMAIN store

\* The alerts without a Classification row (outerjoin, Classification.id == None)
Unclassified(store, rows) ==
    { i \in DOMAIN store : ~\E j \in DOMAIN rows : rows[j].alert_id = store[i].id }

Min(m, n) == IF m < n THEN m ELSE n

\* A query ordered by created_at ascending.
Selections_asc(store, rows, limit) ==
    LET U == Unclassified(store, rows)
        k == Min(limit, Cardinality(U))
        at(i) == ToSeconds(store[i].created_at)
    IN  { b \in [1..k -> U] :
            /\ \A m, n \in 1..k : m < n => b[m] # b[n] /\ at(b[m]) <= at(b[n])
            /\ \A u \in U : (\A m \in 1..k : b[m] # u) => \A m \in 1..k : at(u) >= at(b[m]) }

\* order_by(created_at.desc()).limit(limit): the batches the query can return;
\* rows of equal created_at come in any order.
Selections(store, rows, limit) ==
    LET U == Unclassified(store, rows)
        k == Min(limit, Cardinality(U))
        at(i) == ToSeconds(store[i].created_at)
    IN  { b \in [1..k -> U] :
            /\ \A m, n \in 1..k : m < n => b[m] # b[n] /\ at(b[m]) >= at(b[n])
            /\ \A u \in U : (\A m \in 1..k : b[m] # u) => \A m \in 1..k : at(u) <= at(b[m]) }

\* pc: sleep (between passes), llm (awaiting the API call), resume (the reply
\* is in).  batch: the ids the pass selected; ret: what the last pass returned.
IdleWorker ==
    [pc |-> "sleep", batch |-> << >>, idx |-> 1, count |-> 0,
     content |-> None, ret |-> None]

\* The limits classify_unclassified_alerts is entered with: the worker's, and
\* smaller ones.
Limits == (1..MaxLimit) \cup {WorkerLimit}

NoLoop == \A b \in Adapters : ~InLoop(b)

\* classify_unclassified_alerts(limit) up to its first await, or to its
\* return when nothing is unclassified.
BacklogScan(limit) ==
    /\ worker.pc = "sleep"
    /\ NoLoop
    /\ \E batch \in Selections(alerts, classifications, limit) :
         worker' = IF batch = << >>
                   THEN [IdleWorker EXCEPT !.ret = Some(0)]
                   ELSE [IdleWorker EXCEPT !.pc = "llm", !.batch = batch]

\* A backlog pass entered on its own.
ScanBacklog(limit) ==
    /\ BacklogScan(limit)
    /\ UNCHANGED <<call, app, alerts, classifications, now, feed, run, runs, cycle>>

\* asyncio.to_thread(call_openai) completes.
LlmReplies(reply) ==
    /\ worker.pc = "llm"
    /\ worker' = [worker EXCEPT !.pc = "resume", !.content = Some(reply)]
    /\ UNCHANGED <<call, app, alerts, classifications, now, feed, run, runs, cycle>>

\* A batch loop that counts the alert whether or not classify_alert raised.
ClassifyResumes_count_all ==
    /\ worker.pc = "resume"
    /\ NoLoop
    /\ LET alert == alerts[worker.batch[worker.idx]]
           c == classify_alert(alert, Get(worker.content), classifications)
           count == worker.count + 1
           last == worker.idx = Len(worker.batch)
       IN  /\ classifications' = IF c.raised THEN classifications
                                 ELSE Append(classifications, c.row)
           /\ worker' = IF last
                        THEN [IdleWorker EXCEPT !.ret = Some(count)]
                        ELSE [worker EXCEPT !.pc = "llm", !.idx = @ + 1, !.count = count,
                                            !.content = None]
    /\ UNCHANGED <<call, app, alerts, now, feed, run, runs, cycle>>

\* classify_alert resumes: parse, fall back, add, commit; an exception leaving
\* it is logged by the batch loop, which goes on to the next alert.
ClassifyResumes ==
    /\ worker.pc = "resume"
    /\ NoLoop
    /\ LET alert == alerts[worker.batch[worker.idx]]
           c == classify_alert(alert, Get(worker.content), classifications)
           count == worker.count + (IF c.raised THEN 0 ELSE 1)
           last == worker.idx = Len(worker.batch)
       IN  /\ classifications' = IF c.raised THEN classifications
                                 ELSE Append(classifications, c.row)
           /\ worker' = IF last
                        THEN [IdleWorker EXCEPT !.ret = Some(count)]
                        ELSE [worker EXCEPT !.pc = "llm", !.idx = @ + 1, !.count = count,
                                            !.content = None]
    /\ UNCHANGED <<call, app, alerts, now, feed, run, runs, cycle>>

\* ------------------------------------------------------ ingest_scheduler.py
\* A wait that ends with the first coroutine to return.
GatherFirst == \E a \in Adapters : run[a].pc = "done"

\* gather(...) is done when every run_X_ingestion has returned.
GatherDone == \A a \in Adapters : run[a].pc = "done"

\* run_all_ingestions is entered (at startup, then by the interval job, which
\* never overlaps itself): gather starts the five coroutines.
CycleStarts ==
    /\ cycle.pc = "idle"
    /\ cycle.n < MaxCycles
    /\ NoLoop
    /\ run' = [a \in Adapters |-> BeginRun(a)]
    /\ cycle' = [pc |-> "running", n |-> cycle.n + 1]
    /\ UNCHANGED <<call, app, alerts, classifications, now, feed, runs, worker>>

\* run_all_ingestions returns.
CycleFinishes ==
    /\ cycle.pc = "running"
    /\ GatherDone
    /\ cycle' = [cycle EXCEPT !.pc = "idle"]
    /\ UNCHANGED <<call, app, alerts, classifications, now, feed, run, runs, worker>>

\* The feeds while the classification worker is observed.
ClassifyFeed ==
    [a \in Adapters |->
       CASE a = "NWS" -> [kind |-> "ok", items |-> <<NwsItems[2]>>]
         [] a = "USGS_Earthquakes" -> [kind |-> "ok", items |-> <<UsgsItems[1]>>]
         [] a = "USGS_NWIS" -> [kind |-> "ok", items |-> <<NwisItems[1]>>]
         [] OTHER -> EmptyBody]

\* The feeds of a cycle: two services list an item, the others nothing, and
\* at most one service answers with a malformed body.
AppFeeds ==
    LET base == [a \in Adapters |->
                   CASE a = "NWS" -> [kind |-> "ok", items |-> <<NwsItems[1]>>]
                     [] a = "USGS_Earthquakes" -> [kind |-> "ok", items |-> <<UsgsItems[1]>>]
                     [] OTHER -> EmptyBody]
    IN  {base} \cup { [base EXCEPT ![a] = [kind |-> "malformed", items |-> << >>]] :
                      a \in Adapters }

\* The feeds the pipelines are run against: one service serves any of its
\* bodies while the others serve nothing, or one of the feeds above.
Feeds ==
    { [a \in Adapters |-> IF a = live[1] THEN live[2] ELSE EmptyBody] :
        live \in UNION { {a} \X Bodies(a) : a \in Adapters } }
    \cup {ClassifyFeed} \cup AppFeeds

vars == <<alerts, classifications, now, feed, run, runs, worker, cycle, app, call>>

Init ==
    /\ alerts = << >>
    /\ classifications = << >>
    /\ now = ClockStart
    /\ feed \in Feeds
    /\ run = [a \in Adapters |-> IdleRun]
    /\ runs = 0
    /\ worker = IdleWorker
    /\ cycle = [pc |-> "idle", n |-> 0]
    /\ app = NoApp
    /\ call = NoCall

Next ==
    \/ \E a \in Adapters : StartRun(a)
    \/ \E a \in Adapters : FetchStationsCache(a)
    \/ \E a \in Adapters : FetchReturns(a)
    \/ \E a \in Adapters : PrepareZoneCache(a)
    \/ \E a \in Adapters : ProcessItem(a)
    \/ Tick

\* The ingestion pipelines, run one by one or together.
Spec == Init /\ [][Next]_vars

InitClassify ==
    /\ alerts = << >>
    /\ classifications = << >>
    /\ now = ClockStart
    /\ feed = ClassifyFeed
    /\ run = [a \in Adapters |-> IdleRun]
    /\ runs = 0
    /\ worker = IdleWorker
    /\ cycle = [pc |-> "idle", n |-> 0]
    /\ app = NoApp
    /\ call = NoCall

\* The services that list something.
Serving == { a \in Adapters : feed[a] # EmptyBody }

NextClassify ==
    \/ \E a \in Serving : StartRun(a)
    \/ \E a \in Adapters : FetchReturns(a)
    \/ \E a \in Adapters : PrepareZoneCache(a)
    \/ \E a \in Adapters : ProcessItem(a)
    \/ \E limit \in Limits : ScanBacklog(limit)
    \/ \E reply \in Replies : LlmReplies(reply)
    \/ ClassifyResumes
    \/ Tick

\* The classification worker beside the pipelines of the services that list
\* something.
SpecClassify == InitClassify /\ [][NextClassify]_vars

InitApp ==
    /\ alerts = << >>
    /\ classifications = << >>
    /\ now = ClockStart
    /\ feed \in AppFeeds
    /\ run = [a \in Adapters |-> IdleRun]
    /\ runs = 0
    /\ worker = IdleWorker
    /\ cycle = [pc |-> "idle", n |-> 0]
    /\ app = NoApp
    /\ call = NoCall

NextApp ==
    \/ CycleStarts
    \/ \E a \in Adapters : FetchStationsCache(a)
    \/ \E a \in Adapters : FetchReturns(a)
    \/ \E a \in Adapters : PrepareZoneCache(a)
    \/ \E a \in Adapters : ProcessItem(a)
    \/ CycleFinishes

\* The scheduler's cycles; the event loop runs every coroutine that is ready.
SpecApp == InitApp /\ [][NextApp]_vars /\ WF_vars(NextApp)

\* ---------------------------------------------------------------- main.py
\* app.pc: startup (startup_event is running), up, shutdown (shutdown_event
\* awaits the worker task), down.  scheduler: none, running, stopped.
\* task (the worker task): none, running, cancelling (cancel() was called),
\* cancelled, failed (an exception left the coroutine).  calls: the parity of
\* the number of backlog calls the worker has started.
Booting == [pc |-> "startup", scheduler |-> "none", task |-> "none", calls |-> 0]

\* A startup that starts run_all_ingestions without awaiting its return.
StartupNoAwait == cycle.n > 0

\* `await run_all_ingestions()` of startup_event has returned.
StartupAwaits == cycle.pc = "idle" /\ cycle.n > 0

\* startup_event calls run_all_ingestions.
StartupIngests ==
    /\ app.pc = "startup"
    /\ cycle.n = 0
    /\ CycleStarts

\* startup_event after the initial ingestion: start_scheduler(), then
\* create_task(classification_worker()).
StartupCompletes ==
    /\ app.pc = "startup"
    /\ StartupAwaits
    /\ NoLoop
    /\ app' = [app EXCEPT !.pc = "up", !.scheduler = "running", !.task = "running"]
    /\ UNCHANGED <<call, alerts, classifications, now, feed, run, runs, worker, cycle>>

\* The interval trigger fires the job `ingest_all`.
IntervalJob ==
    /\ app.scheduler = "running"
    /\ CycleStarts

\* A handler that logs and re-raises.
worker_reraise == "failed"

\* classification_worker: except Exception -> log; the loop goes on.
worker_except == "running"

\* The worker enters classify_unclassified_alerts(limit=10).
WorkerScans ==
    /\ app.task = "running"
    /\ BacklogScan(WorkerLimit)
    /\ app' = [app EXCEPT !.calls = 1 - @]
    /\ UNCHANGED <<call, alerts, classifications, now, feed, run, runs, cycle>>

\* classify_unclassified_alerts raises (the session or the query fails); the
\* worker logs it and sleeps.
WorkerScanFails ==
    /\ app.task = "running"
    /\ worker.pc = "sleep"
    /\ NoLoop
    /\ worker' = IdleWorker
    /\ app' = [app EXCEPT !.calls = 1 - @, !.task = worker_except]
    /\ UNCHANGED <<call, alerts, classifications, now, feed, run, runs, cycle>>

\* The replies while the process is observed: an error and an answer.
LifeReplies ==
    { Reply("transport_error", "", NoRationale),
      Reply("object", "Medium", Text("llm", RationaleLimit + 200)) }

WorkerAwaitsReply ==
    /\ app.task = "running"
    /\ \E reply \in LifeReplies : LlmReplies(reply)

WorkerResumes ==
    /\ app.task = "running"
    /\ ClassifyResumes

\* A shutdown that leaves the scheduler as it is.
scheduler_shutdown_skipped == "running"

\* scheduler.shutdown(wait=True)
scheduler_shutdown == "stopped"

\* shutdown_event up to its await: the scheduler is shut down and the worker
\* task is cancelled; then wait_for(task, timeout=5.0).
ShutdownBegins ==
    /\ app.pc = "up"
    /\ NoLoop
    /\ app' = [app EXCEPT !.pc = "shutdown",
                          !.scheduler = scheduler_shutdown,
                          !.task = IF @ = "running" THEN "cancelling" ELSE @]
    /\ UNCHANGED <<call, alerts, classifications, now, feed, run, runs, worker, cycle>>

\* CancelledError is raised at the await the worker is suspended in; no
\* `except Exception` catches it, so the coroutine ends there.
WorkerCancelled ==
    /\ app.task = "cancelling"
    /\ NoLoop
    /\ app' = [app EXCEPT !.task = "cancelled"]
    /\ worker' = [worker EXCEPT !.pc = "cancelled"]
    /\ UNCHANGED <<call, alerts, classifications, now, feed, run, runs, cycle>>

\* wait_for returns through CancelledError or the task's exception.
ShutdownCompletes ==
    /\ app.pc = "shutdown"
    /\ app.task \in {"cancelled", "failed"}
    /\ NoLoop
    /\ app' = [app EXCEPT !.pc = "down"]
    /\ UNCHANGED <<call, alerts, classifications, now, feed, run, runs, worker, cycle>>

\* wait_for gives up after its timeout.
GraceExpires ==
    /\ app.pc = "shutdown"
    /\ app.task = "cancelling"
    /\ NoLoop
    /\ app' = [app EXCEPT !.pc = "down"]
    /\ UNCHANGED <<call, alerts, classifications, now, feed, run, runs, worker, cycle>>

\* The feed while the process is observed: one service lists one item.
LifeFeed ==
    [a \in Adapters |->
       IF a = "USGS_Earthquakes" THEN [kind |-> "ok", items |-> <<UsgsItems[1]>>]
       ELSE EmptyBody]

InitLife ==
    /\ alerts = << >>
    /\ classifications = << >>
    /\ now = ClockStart
    /\ feed = LifeFeed
    /\ run = [a \in Adapters |-> IdleRun]
    /\ runs = 0
    /\ worker = IdleWorker
    /\ cycle = [pc |-> "idle", n |-> 0]
    /\ app = Booting
    /\ call = NoCall

NextLife ==
    \/ StartupIngests
    \/ StartupCompletes
    \/ IntervalJob
    \/ \E a \in Adapters : FetchStationsCache(a)
    \/ \E a \in Adapters : FetchReturns(a)
    \/ \E a \in Adapters : ProcessItem(a)
    \/ CycleFinishes
    \/ WorkerScans
    \/ WorkerScanFails
    \/ WorkerAwaitsReply
    \/ WorkerResumes
    \/ ShutdownBegins
    \/ WorkerCancelled
    \/ ShutdownCompletes
    \/ GraceExpires

\* The process from startup_event to the end of shutdown_event.
SpecLife == InitLife /\ [][NextLife]_vars

\* The worker run as its own process (python -m app.services.classify): no
\* handlers, no scheduler; the alerts come from the pipelines.
WorkerAlone == [pc |-> "none", scheduler |-> "none", task |-> "running", calls |-> 0]

InitWorker ==
    /\ alerts = << >>
    /\ classifications = << >>
    /\ now = ClockStart
    /\ feed = LifeFeed
    /\ run = [a \in Adapters |-> IdleRun]
    /\ runs = 0
    /\ worker = IdleWorker
    /\ cycle = [pc |-> "idle", n |-> 0]
    /\ app = WorkerAlone
    /\ call = NoCall

\* The next step of the worker coroutine.
WorkerStep == WorkerScans \/ WorkerScanFails \/ WorkerAwaitsReply \/ WorkerResumes

NextWorker ==
    \/ \E a \in Serving : StartRun(a)
    \/ \E a \in Adapters : FetchReturns(a)
    \/ \E a \in Adapters : ProcessItem(a)
    \/ WorkerScans
    \/ WorkerScanFails
    \/ WorkerAwaitsReply
    \/ WorkerResumes

\* The worker loop beside the pipelines.  The event loop resumes a coroutine
\* whose await is over: the sleep of 30 s ends, the API call returns or times
\* out, and code without an await runs to its next await.
SpecWorker ==
    /\ InitWorker
    /\ [][NextWorker]_vars
    /\ WF_vars(WorkerStep)
    /\ WF_vars(\E a \in Adapters : ProcessItem(a))

\* ------------------------------------------------ the worker and its API
\* The feed while the backlog is observed: one service lists two items.
BacklogFeed ==
    [a \in Adapters |->
       IF a = "USGS_Earthquakes"
       THEN [kind |-> "ok", items |-> <<UsgsItems[1], UsgsItems[2]>>]
       ELSE EmptyBody]

\* What the API answers while the backlog is observed: a well-formed answer,
\* or one whose rationale is null.
BacklogReplies ==
    { Reply("object", "Medium", Text("llm", RationaleLimit + 200)),
      Reply("object", "High", NullRationale) }

InitBacklog ==
    /\ alerts = << >>
    /\ classifications = << >>
    /\ now = ClockStart
    /\ feed = BacklogFeed
    /\ run = [a \in Adapters |-> IdleRun]
    /\ runs = 0
    /\ worker = IdleWorker
    /\ cycle = [pc |-> "idle", n |-> 0]
    /\ app = WorkerAlone
    /\ call = NoCall

\* asyncio.to_thread(call_openai) returns.
BacklogAwaitsReply ==
    /\ app.task = "running"
    /\ \E reply \in BacklogReplies : LlmReplies(reply)

\* The next step of the worker coroutine when the database answers.
BacklogStep == WorkerScans \/ BacklogAwaitsReply \/ WorkerResumes

NextBacklog ==
    \/ \E a \in Serving : StartRun(a)
    \/ \E a \in Adapters : FetchReturns(a)
    \/ \E a \in Adapters : ProcessItem(a)
    \/ WorkerScans
    \/ BacklogAwaitsReply
    \/ WorkerResumes

\* The worker loop with a database that answers and an API that replies,
\* beside a pipeline; the event loop resumes a coroutine whose await is over.
SpecBacklog ==
    /\ InitBacklog
    /\ [][NextBacklog]_vars
    /\ WF_vars(BacklogStep)
    /\ WF_vars(\E a \in Adapters : ProcessItem(a))

\* The application is up: startup_event has returned.
Up == [pc |-> "up", scheduler |-> "running", task |-> "running", calls |-> 0]

InitCancel ==
    /\ alerts = << >>
    /\ classifications = << >>
    /\ now = ClockStart
    /\ feed = BacklogFeed
    /\ run = [a \in Adapters |-> IdleRun]
    /\ runs = 0
    /\ worker = IdleWorker
    /\ cycle = [pc |-> "idle", n |-> 0]
    /\ app = Up
    /\ call = NoCall

NextCancel ==
    \/ NextBacklog
    \/ ShutdownBegins
    \/ WorkerCancelled
    \/ ShutdownCompletes
    \/ GraceExpires

\* The worker's backlog calls beside a pipeline, up to the end of
\* shutdown_event.
SpecCancel == InitCancel /\ [][NextCancel]_vars

\* ------------------------------------------- two processes, one database
\* A second process (the scheduler module or a service module run from the
\* command line while the application is up) inside service.run() of adapter
\* a, at the head of its loop over the items it extracted.
OtherRun(a, items) ==
    [fn |-> "run", args |-> a, items |-> items, pc |-> "loop", idx |-> 1,
     new_count |-> 0, ret |-> Pending]

\* The listings the second process can be looping over: not empty and, for
\* NWS, past _prepare_zone_cache.
OtherListings(a) ==
    { its \in Listings(Items(a), MaxItems) :
        its # << >> /\ (a = "NWS" => ~ZoneCacheRaises(its)) }

InitRace ==
    /\ alerts = << >>
    /\ classifications = << >>
    /\ now = ClockStart
    /\ run = [a \in Adapters |-> IdleRun]
    /\ runs = 0
    /\ worker = IdleWorker
    /\ cycle = [pc |-> "idle", n |-> 0]
    /\ app = NoApp
    /\ \E a \in Adapters :
          /\ feed \in { [b \in Adapters |-> IF b = a THEN [kind |-> "ok", items |-> its]
                                             ELSE EmptyBody] :
                         its \in OtherListings(a) }
          /\ call \in { OtherRun(a, its) : its \in OtherListings(a) }

\* One pass of the second process's `for item in items`; its upsert is one
\* transaction on the shared database.
OtherProcessItem ==
    /\ call.fn = "run"
    /\ call.pc = "loop"
    /\ LET a == call.args
           item == call.items[call.idx]
           normalized == normalize_item(a, item, now)
           up == IF IsSome(normalized) THEN upsert_alert(alerts, Get(normalized), now)
                 ELSE [store |-> alerts, alert |-> None]
           new_count == call.new_count + Counted(up.alert)
           last == call.idx = Len(call.items)
       IN  /\ alerts' = up.store
           /\ call' = [call EXCEPT !.idx = @ + 1,
                                   !.new_count = new_count,
                                   !.pc = IF last THEN "done" ELSE "loop",
                                   !.ret = IF last THEN Returned(new_count) ELSE Pending]
    /\ UNCHANGED <<app, classifications, now, feed, run, runs, worker, cycle>>

NextRace ==
    \/ \E a \in Serving : StartRun(a)
    \/ \E a \in Adapters : FetchStationsCache(a)
    \/ \E a \in Adapters : FetchReturns(a)
    \/ \E a \in Adapters : PrepareZoneCache(a)
    \/ \E a \in Adapters : ProcessItem(a)
    \/ OtherProcessItem

\* A pipeline of the application and the same pipeline in a second process,
\* interleaved item by item on one database.
SpecRace == InitRace /\ [][NextRace]_vars

\* --------------------------------------------- utils/backfill_coordinates
\* The ids the command line passes; 0 stands for no --alert-id (None is falsy,
\* as 0 is).
BackfillIds == 0..MaxItems

\* extract_coords_from_raw_payload: nothing for a WMATA row; for the other
\* sources what the row's raw_payload holds, which is the input has_point.
extract_coords_from_raw_payload(alert, has_point) ==
    IF alert.source # "WMATA" /\ has_point THEN Some(PairOf(<<-77, 38>>)) ELSE None

\* A session whose Alert class maps latitude and longitude columns.
backfill_commit_mapped(store, selected, has_point) ==
    [i \in DOMAIN store |->
        LET coords == extract_coords_from_raw_payload(store[i], has_point)
        IN  IF i \in selected /\ IsSome(coords)
            THEN [latitude |-> Get(coords).lat, longitude |-> Get(coords).lon] @@ store[i]
            ELSE store[i]]

\* alert.latitude = ..., alert.longitude = ... and db.commit(): models.Alert
\* maps no latitude and no longitude column, so the two are attributes of the
\* loaded objects only and the commit writes nothing.
backfill_commit(store, selected, has_point) == store

\* backfill_alert_coordinates.  Without an id the filter reads Alert.latitude,
\* which the class does not have: AttributeError before any row is loaded.
\* With an id the rows of that id are loaded, the coordinates of their payload
\* are set on them, and the session commits.
BackfillAlertCoordinates(alert_id, has_point) ==
    LET selected == { i \in DOMAIN alerts : alerts[i].id = alert_id }
        updated == Cardinality({ i \in selected :
                        IsSome(extract_coords_from_raw_payload(alerts[i], has_point)) })
    IN  /\ alerts' = IF alert_id = 0 THEN alerts
                      ELSE backfill_commit(alerts, selected, has_point)
        /\ call' = [fn |-> "backfill_alert_coordinates", args |-> alert_id,
                     result |-> IF alert_id = 0 THEN "AttributeError"
                                ELSE IF updated > 0 THEN "updated" ELSE "none"]
        /\ call' # call
        /\ UNCHANGED <<app, classifications, now, feed, run, runs, worker, cycle>>

NextRows ==
    \/ \E a \in Serving : StartRun(a)
    \/ \E a \in Adapters : FetchReturns(a)
    \/ \E a \in Adapters : PrepareZoneCache(a)
    \/ \E a \in Adapters : ProcessItem(a)
    \/ ScanBacklog(WorkerLimit)
    \/ \E reply \in Replies : LlmReplies(reply)
    \/ ClassifyResumes
    \/ \E alert_id \in BackfillIds, has_point \in BOOLEAN :
           BackfillAlertCoordinates(alert_id, has_point)

\* The pipelines, the classification worker with the limit of its loop, and
\* the backfill command on one database.
SpecRows == InitClassify /\ [][NextRows]_vars

\* ------------------------------------------------- functions under check
\* The program state of a specification that only applies a function.
program == <<alerts, classifications, now, feed, run, runs, worker, cycle, app>>

InitProgram ==
    /\ alerts = << >>
    /\ classifications = << >>
    /\ now = ClockStart
    /\ feed = [a \in Adapters |-> EmptyBody]
    /\ run = [a \in Adapters |-> IdleRun]
    /\ runs = 0
    /\ worker = IdleWorker
    /\ cycle = [pc |-> "idle", n |-> 0]
    /\ app = NoApp

\* Arguments of generate_natural_key: with and without provider id, two titles,
\* two areas, and timestamps on both sides of a 10-minute boundary.
KeyTimes ==
    { Datetime(0, 0, 0), Datetime(0, BucketMinutes - 1, 59), Datetime(0, BucketMinutes, 0),
      Datetime(1, BucketMinutes - 1, 59) }

KeyArgs ==
    [source : {"NWS", "WMATA"}, provider_id : {NoText, <<"nws-1">>},
     title : {<<"Flood Warning">>, <<"Red Line delay">>}, area : {NoText, <<"Fairfax">>},
     effective_at : {None} \cup { Some(t) : t \in KeyTimes }]

KeyOf(x) == generate_natural_key(x.source, x.provider_id, x.title, x.area, x.effective_at)

InitKey ==
    /\ InitProgram
    /\ call \in { [fn |-> "generate_natural_key", args |-> <<x, y>>, result |-> None] :
                    x \in KeyArgs, y \in KeyArgs }

\* The key is generated for each of the two argument lists.
GenerateKeys ==
    /\ call.fn = "generate_natural_key"
    /\ call.result = None
    /\ call' = [call EXCEPT !.result = Some(<<KeyOf(call.args[1]), KeyOf(call.args[2])>>)]
    /\ UNCHANGED program

NextKey == GenerateKeys

\* generate_natural_key applied to pairs of argument lists.
SpecKey == InitKey /\ [][NextKey]_vars

\* The columns classify_by_rules reads, as the adapters and feeds fill them.
RuleSeverities == {"", "Extreme", "Severe", "Moderate", "Minor", "Wind Advisory"}
RuleUrgencies == {"", "Immediate", "Expected", "Future", "Flood Warning", "Flood Watch", "Moderate"}
RuleEvents == {"", "Earthquake", "Flood Warning", "Fire"}

InitRules ==
    /\ InitProgram
    /\ call \in { [fn |-> "classify_by_rules",
                    args |-> [severity |-> s, urgency |-> u, event_type |-> e],
                    result |-> None] :
                    s \in RuleSeverities, u \in RuleUrgencies, e \in RuleEvents }

\* The rule tier classifies the alert.
ClassifyByRules ==
    /\ call.fn = "classify_by_rules"
    /\ call.result = None
    /\ call' = [call EXCEPT !.result = Some(classify_by_rules(call.args))]
    /\ UNCHANGED program

NextRules == ClassifyByRules

\* classify_by_rules applied to alerts of every severity, urgency and event.
SpecRules == InitRules /\ [][NextRules]_vars

\* Geometries: [lon, lat] lists in range, on the range's edge, out of range
\* in either member, and too short; rings of up to MaxRing of them.
MaxRing == 3

GeoPoints ==
    { <<-77, 38>>, <<LonMax, LatMax>>, <<-LonMax, -LatMax>>, <<-77, LatMax + 1>>,
      <<LonMax + 1, 38>>, <<-77>> }

GeoRings == UNION { [1..n -> GeoPoints] : n \in 0..MaxRing }

Geometry(form, type, coordinates) ==
    [form |-> form, type |-> type, coordinates |-> coordinates]

Geometries ==
    { Geometry(f, "", << >>) : f \in {"none", "bad_string"} }
    \cup { Geometry("list", "", p) : p \in GeoPoints \cup {<< >>} }
    \cup { Geometry("dict", t, p) : t \in {"Point", "LineString"}, p \in GeoPoints \cup {<< >>} }
    \cup { Geometry("dict", "Polygon", c) : c \in {<< >>} \cup { <<r>> : r \in GeoRings } }
    \cup { Geometry("dict", "MultiPolygon", c) :
              c \in {<< >>, << << >> >>} \cup { << <<r>> >> : r \in GeoRings } }

InitGeo ==
    /\ InitProgram
    /\ call \in { [fn |-> "extract_point_from_geometry", args |-> g, result |-> None] :
                    g \in Geometries }

\* A point is extracted from the geometry.
ExtractPoint ==
    /\ call.fn = "extract_point_from_geometry"
    /\ call.result = None
    /\ call' = [call EXCEPT !.result = Some(extract_point_from_geometry(call.args))]
    /\ UNCHANGED program

NextGeo == ExtractPoint

\* extract_point_from_geometry applied to geometries of every form.
SpecGeo == InitGeo /\ [][NextGeo]_vars

\* Weather alerts with and without a usable geometry and affected zone, and
\* the zone table empty or holding one zone.
NwsGeometries ==
    { Geometry("none", "", << >>),
      Geometry("dict", "Point", <<-77, 38>>),
      Geometry("dict", "Point", <<-77, LatMax + 1>>),
      Geometry("dict", "Polygon", << <<<<LonMax + 1, 38>>, <<-78, 39>>>> >>) }

ZoneTables == { << >>, [z \in {"zones/VAZ054"} |-> [lat |-> Fraction(39, 1), lon |-> Fraction(-78, 1)]] }

NwsInputs ==
    { [a |-> "NWS",
       item |-> [geometry |-> g, affectedZones |-> z] @@ i,
       cache |-> c, test_mode |-> t] :
      g \in NwsGeometries, z \in {<< >>, <<"zones/VAZ054">>, <<"zones/VAZ053">>},
      i \in {NwsItems[1], NwsItems[4]}, c \in ZoneTables, t \in BOOLEAN }

\* Transit incidents with and without station names, and the station table
\* empty or holding two stations.
StationTables ==
    { << >>,
      << [name |-> "pentagon", lat |-> Fraction(388694, 10000), lon |-> Fraction(-770537, 10000)],
         [name |-> "king st", lat |-> Fraction(388065, 10000), lon |-> Fraction(-770608, 10000)] >> }

WmataInputs ==
    { [a |-> "WMATA",
       item |-> [StartLocationFullName |-> st, EndLocationFullName |-> en, Description |-> de] @@ i,
       cache |-> c, test_mode |-> TRUE] :
      st \in {"", "Pentagon", "Union Station"}, en \in {"", "King St"},
      de \in {"", "Delay at Pentagon", "trains are single tracking"},
      i \in {WmataItems[1], WmataItems[3]}, c \in StationTables }

InitCoords ==
    /\ InitProgram
    /\ call \in { [fn |-> "normalize_item", args |-> x, result |-> None] :
                    x \in NwsInputs \cup WmataInputs }

\* The item is normalized with the side table of its run.
NormalizeItem ==
    /\ call.fn = "normalize_item"
    /\ call.result = None
    /\ call' = [call EXCEPT !.result =
                   Some(normalize_item_cached(call.args.a, call.args.item, call.args.cache,
                                              call.args.test_mode, now))]
    /\ UNCHANGED program

NextCoords == NormalizeItem

\* normalize_item of the two adapters that resolve coordinates.
SpecCoords == InitCoords /\ [][NextCoords]_vars

\* ------------------------------------------------------------------ claims
\* No two rows of the store share a natural key.
UniqueKeys ==
    \A i, j \in DOMAIN alerts : alerts[i].natural_key = alerts[j].natural_key => i = j

\* ------------------------------------- IngestNWS._fetch_zone_coordinates_batch
\* for i in range(0, len(zone_urls), 5)
ZoneBatchSize == 5

\* A loop that hands every remaining zone to one gather.
Batch_whole(zone_urls, i) == { zone_urls[k] : k \in (i + 1)..Len(zone_urls) }

\* zone_urls[i:i+5]
Batch(zone_urls, i) ==
    { zone_urls[k] : k \in (i + 1)..Min(i + ZoneBatchSize, Len(zone_urls)) }

\* How fetch_one(url) ends: (url, coords); None because the zone has no usable
\* geometry; None because the request or the parsing raised.
ZoneOutcomes == {"point", "no_point", "error"}

\* The point of a zone's geometry.
ZonePoint == [lat |-> Fraction(39, 1), lon |-> Fraction(-78, 1)]

\* The call is entered with the distinct URLs _prepare_zone_cache collected.
\* inflight: the fetch_one coroutines of the current gather that have not
\* returned.  outcome: how each returned fetch_one ended.
InitZones ==
    /\ InitProgram
    /\ call \in { [fn |-> "_fetch_zone_coordinates_batch",
                   args |-> [k \in 1..n |-> k],
                   pc |-> "entry", i |-> 0, inflight |-> {},
                   outcome |-> << >>, zone_coords |-> << >>] : n \in 0..MaxZones }

\* The first gather is started, or {} is returned for no URLs.
ZoneCallEnters ==
    /\ call.fn = "_fetch_zone_coordinates_batch"
    /\ call.pc = "entry"
    /\ call' = IF call.args = << >>
               THEN [call EXCEPT !.pc = "returned"]
               ELSE [call EXCEPT !.pc = "gather", !.inflight = Batch(call.args, 0)]
    /\ UNCHANGED program

\* One fetch_one of the gather in progress returns.
ZoneFetchReturns(url, how) ==
    /\ call.fn = "_fetch_zone_coordinates_batch"
    /\ call.pc = "gather"
    /\ url \in call.inflight
    /\ call' = [call EXCEPT !.inflight = @ \ {url},
                            !.outcome = (url :> how) @@ @]
    /\ UNCHANGED program

\* gather returns: the tuples among its results are put into zone_coords, and
\* the loop starts the next gather or returns zone_coords.
ZoneGatherReturns ==
    /\ call.fn = "_fetch_zone_coordinates_batch"
    /\ call.pc = "gather"
    /\ call.inflight = {}
    /\ LET batch == Batch(call.args, call.i)
           got == { u \in batch : call.outcome[u] = "point" }
           zone_coords == [u \in got |-> ZonePoint] @@ call.zone_coords
           i == call.i + ZoneBatchSize
       IN  call' = IF i < Len(call.args)
                   THEN [call EXCEPT !.zone_coords = zone_coords, !.i = i,
                                     !.inflight = Batch(call.args, i)]
                   ELSE [call EXCEPT !.zone_coords = zone_coords, !.i = i,
                                     !.pc = "returned"]
    /\ UNCHANGED program

NextZones ==
    \/ ZoneCallEnters
    \/ \E url \in 1..MaxZones, how \in ZoneOutcomes : ZoneFetchReturns(url, how)
    \/ ZoneGatherReturns

\* The side table of the weather pipeline is fetched for some zone URLs.
SpecZones == InitZones /\ [][NextZones]_vars

\* The normalized item is handed to upsert_alert, as run() does.
UpsertNormalized ==
    /\ call.fn = "normalize_item"
    /\ IsSome(call.result)
    /\ IsSome(Get(call.result))
    /\ alerts = << >>
    /\ alerts' = upsert_alert(alerts, Get(Get(call.result)), now).store
    /\ alerts' # alerts
    /\ UNCHANGED <<call, classifications, now, feed, run, runs, worker, cycle, app>>

NextStored ==
    \/ NormalizeItem
    \/ UpsertNormalized

\* An item of the two adapters that resolve coordinates is normalized and
\* inserted.
SpecStored == InitCoords /\ [][NextStored]_vars

\* ------------------------------------------------ transit incident types
\* Incident types that IngestWMATA.normalize_item may be handed: the two of the
\* feed, one per keyword of the severity rule, one with keywords of both
\* lists, and one with none.
IncidentTypes ==
    { "Delay", "Alert", "Major Delay", "Service Suspended", "Station Closure",
      "Single Tracking", "Disabled Train", "Suspended, Disabled Train",
      "Elevator Outage", "" }

Incidents ==
    { [shape |-> "object", IncidentID |-> id, IncidentType |-> t,
       LinesAffected |-> lines] :
          id \in {NoText, <<"inc-1">>}, t \in IncidentTypes,
          lines \in {NoText, <<"BL;">>, <<"YL;">>} }

InitIncident ==
    /\ InitProgram
    /\ call \in { [fn |-> "normalize_item", args |-> [item |-> item],
                   result |-> None] : item \in Incidents }

\* IngestWMATA.normalize_item is applied to the incident.
NormalizeIncident ==
    /\ call.fn = "normalize_item"
    /\ call.result = None
    /\ call' = [call EXCEPT !.result =
                    Some(normalize_item("WMATA", call.args.item, now))]
    /\ UNCHANGED program

NextIncident == NormalizeIncident

\* IngestWMATA.normalize_item applied to incidents of every listed type.
SpecIncident == InitIncident /\ [][NextIncident]_vars

\* What normalize_item yields for the items of every service.
Normals ==
    LET yielded == UNION { { normalize_item(a, Items(a)[i], ClockStart) :
                             i \in DOMAIN Items(a) } : a \in Adapters }
    IN  { Get(n) : n \in { y \in yielded : IsSome(y) } }

\* The stores an insert meets: empty, or holding the row of one item.
Stores == {<< >>} \cup { upsert_alert(<< >>, n, ClockStart).store : n \in Normals }

InitUpsert ==
    /\ InitProgram
    /\ call \in { [fn |-> "upsert_alert",
                   args |-> [store |-> st, normalized |-> n, db_error |-> e],
                   result |-> None] :
                   st \in Stores, n \in Normals, e \in BOOLEAN }

\* upsert_alert is applied: the alert it returns and the handler that ended it.
UpsertAlert ==
    /\ call.fn = "upsert_alert"
    /\ call.result = None
    /\ LET x == call.args
           up == IF x.db_error THEN [store |-> x.store, alert |-> None]
                 ELSE upsert_alert(x.store, x.normalized, ClockStart)
       IN  call' = [call EXCEPT !.result =
                       Some([alert |-> up.alert, store |-> up.store,
                             handler |-> upsert_handler(x.store, x.normalized, x.db_error)])]
    /\ UNCHANGED program

NextUpsert == UpsertAlert

\* upsert_alert applied to every normalized item against small stores.
SpecUpsert == InitUpsert /\ [][NextUpsert]_vars

\* A step leaves every stored row where and as it was.
RowsKept == \A i \in DOMAIN alerts : i \in DOMAIN alerts' /\ alerts'[i] = alerts[i]

\* C1: the store holds at most one row per natural key, and no step, in
\* particular no upsert of a key already present, changes a row once inserted.
C1_UniqueKeyNoOverwrite == []UniqueKeys /\ [][RowsKept]_vars

\* A run has processed the first weather alert and then its update under the
\* same id: one row, with the fields of the first.
C1_Witness ==
    /\ run["NWS"].pc = "done"
    /\ ItemsOf("NWS") = <<NwsItems[1], NwsItems[2]>>
    /\ run["NWS"].ret = Returned(1)
    /\ \E i \in DOMAIN alerts : /\ alerts[i].natural_key = <<"NWS", <<"nws-1">>>>
                                /\ alerts[i].severity = "Severe"

\* C2: a run that fetched the payload the adapter's previous run fetched
\* inserts no row and returns 0, for every adapter.
C2_SecondRunInsertsNothing ==
    \A a \in Adapters :
        (run[a].pc = "done" /\ run[a].repeat)
            => (run[a].ret = Returned(0) /\ run[a].added = 0)

\* C4: a finished run returned the number of rows it added; when the fetch
\* yielded nothing or no items were extracted it returned 0 and added no row.
C4_ReturnsRowsAdded ==
    \A a \in Adapters :
        run[a].pc = "done" =>
            /\ run[a].ret = Returned(run[a].added)
            /\ (~IsSome(run[a].raw) \/ ItemsOf(a) = << >>)
                   => (run[a].ret = Returned(0) /\ run[a].added = 0)

\* A run over two items of which one was inserted.
C4_Witness ==
    \E a \in Adapters :
        /\ run[a].pc = "done"
        /\ Len(ItemsOf(a)) = 2
        /\ run[a].added = 1
        /\ run[a].ret = Returned(1)

\* The run's extraction or side-cache construction raised.
RaisedInside(a) ==
    /\ IsSome(run[a].raw)
    /\ ~Falsy(run[a].raw)
    /\ \/ extract_items(a, Get(run[a].raw)).raised
       \/ a = "NWS" /\ ZoneCacheRaises(ItemsOf(a))

\* C5: no exception leaves run(): a finished run handed its caller an
\* integer, and 0 when extraction or side-cache construction raised.
C5_NoExceptionEscapes ==
    \A a \in Adapters :
        /\ ~run[a].ret.raised
        /\ run[a].pc = "done" => IsSome(run[a].ret.value)
        /\ (run[a].pc = "done" /\ RaisedInside(a)) => run[a].ret = Returned(0)

\* A finished run whose extraction or side cache raised.
C5_Witness == \E a \in Adapters : run[a].pc = "done" /\ RaisedInside(a)

\* An alert with a Classification row.
Classified(id) == \E j \in DOMAIN classifications : classifications[j].alert_id = id

AllClassified == \A i \in DOMAIN alerts : Classified(alerts[i].id)

\* The backlog pass finishes classify_alert for the alert at worker.idx.
ResumeStep == worker.pc = "resume" /\ worker'.pc # "resume"

\* The row a step has added for that alert, if it added one.
AddedRow ==
    /\ Len(classifications') = Len(classifications) + 1
    /\ SubSeq(classifications', 1, Len(classifications)) = classifications
    /\ classifications'[Len(classifications')].alert_id = worker.batch[worker.idx]

\* No alert has two Classification rows.
AtMostOnce ==
    \A i, j \in DOMAIN classifications :
        classifications[i].alert_id = classifications[j].alert_id => i = j

\* The alerts a backlog pass still has to classify have no row.
PendingUnclassified ==
    worker.pc \in {"llm", "resume"} =>
        \A k \in worker.idx..Len(worker.batch) : ~Classified(worker.batch[k])

\* With every alert classified, a scan selects nothing and nothing is written.
Exhausted ==
    (AllClassified /\ worker.pc = "sleep")
        => (worker'.pc = "sleep" /\ classifications' = classifications)

\* C3: no alert has two Classification rows; the alerts a backlog pass still
\* has to classify have none; and when every alert is classified a scan
\* selects nothing and no step writes a Classification row.
C3_ClassifiedAtMostOnce == [](AtMostOnce /\ PendingUnclassified) /\ [][Exhausted]_vars

\* Two alerts are classified and a later scan has returned 0.
C3_Witness ==
    /\ Len(alerts) >= 2
    /\ AllClassified
    /\ worker.pc = "sleep"
    /\ worker.ret = Some(0)

\* A pipeline has ended in failure: nothing fetched, or an exception caught.
Failed(a) == run[a].pc = "done" /\ (~IsSome(run[a].raw) \/ RaisedInside(a))

\* The next step of a pipeline.
StepOf(a) ==
    FetchStationsCache(a) \/ FetchReturns(a) \/ PrepareZoneCache(a) \/ ProcessItem(a)

\* While a cycle runs, every pipeline has been started.
AllStarted == cycle.pc = "running" => \A a \in Adapters : run[a].pc # "idle"

\* A cycle that is over has an integer from every pipeline.
AllFinished ==
    (cycle.pc = "idle" /\ cycle.n > 0)
        => \A a \in Adapters : run[a].pc = "done" /\ IsSome(run[a].ret.value)

\* The step that starts a cycle starts all five pipelines.
StartedTogether ==
    (cycle.pc = "idle" /\ cycle'.pc = "running")
        => \A a \in Adapters : run'[a].pc \in {"fetch", "stations"}

\* The step that ends one pipeline changes no other pipeline.
OthersUntouched ==
    \A a, b \in Adapters :
        (a # b /\ run[a].pc # "done" /\ run'[a].pc = "done") => run'[b] = run[b]

\* An unfinished pipeline can step unless another is inside its item loop,
\* and the cycle can end as soon as all five have returned.
NoneBlocked ==
    cycle.pc = "running" =>
        /\ \A a \in Adapters :
             run[a].pc # "done" => (ENABLED StepOf(a) \/ \E b \in Adapters \ {a} : InLoop(b))
        /\ GatherDone => ENABLED CycleFinishes

\* C6: a cycle starts all five pipelines together; a pipeline that ends, in
\* failure or not, changes no other pipeline; whatever the others did, a
\* pipeline that has not returned can take its next step as soon as no other
\* is inside its item loop; the cycle is over only when all five have
\* returned, and can end as soon as they have.
C6_CycleRunsAllFive ==
    /\ [](AllStarted /\ AllFinished /\ NoneBlocked)
    /\ [][StartedTogether /\ OthersUntouched]_vars

\* A cycle is over in which one pipeline failed and another inserted a row.
C6_Witness ==
    /\ cycle.pc = "idle"
    /\ cycle.n = 1
    /\ \E a, b \in Adapters : Failed(a) /\ run[b].added = 1

\* C7: when the LLM call errors, classify_alert still persists a row for the
\* alert, with a criticality of High, Medium or Low and the rules tag.
C7_RulesFallback ==
    [][(ResumeStep /\ Get(worker.content).kind = "transport_error")
         => /\ AddedRow
            /\ classifications'[Len(classifications')].criticality \in Criticalities
            /\ classifications'[Len(classifications')].model_version = "rules-fallback"]_vars

\* The rule tier has answered after the LLM tier failed.
C7_Witness ==
    /\ worker.pc = "sleep"
    /\ \E j \in DOMAIN classifications :
         /\ classifications[j].model_version = "rules-fallback"
         /\ classifications[j].criticality = "Medium"

\* C8: the tiers are tried in the order primary, secondary, rules, stopping
\* at the first success: when the primary tier has failed the secondary LLM
\* is asked next, so the step that takes in the primary's failure writes no
\* row yet, and a row tagged rules-fallback is never what follows it.
C8_TierOrder ==
    [][(ResumeStep /\ ~IsSome(classify_with_llm(Get(worker.content))))
         => classifications' = classifications]_vars

\* A reply that is not {criticality in High/Medium/Low, rationale: string}.
IllShaped(reply) ==
    \/ reply.kind # "object"
    \/ reply.criticality \notin Criticalities
    \/ reply.rationale.kind # "string"

\* C9: a reply that is an error, empty, malformed or ill-shaped fails the
\* tier without leaving classify_alert: the call still adds the alert's row,
\* and the row is not the LLM tier's.
C9_IllShapedReplyFallsThrough ==
    [][(ResumeStep /\ IllShaped(Get(worker.content)))
         => /\ AddedRow
            /\ classifications'[Len(classifications')].model_version # MODEL_NAME]_vars

\* The creation time of an alert, in seconds.
CreatedAt(id) == ToSeconds(alerts[id].created_at)

\* The backlog as a scan finds it.
Backlog == { alerts[i].id : i \in { k \in DOMAIN alerts : ~Classified(alerts[k].id) } }

\* What a scan with a limit puts in the batch.
ScanSelects ==
    \A limit \in Limits :
      ScanBacklog(limit) =>
        LET b == worker'.batch
        IN  /\ Len(b) = Min(limit, Cardinality(Backlog))
            /\ \A m \in DOMAIN b : b[m] \in Backlog
            /\ \A m, n \in DOMAIN b : m < n => b[m] # b[n] /\ CreatedAt(b[m]) >= CreatedAt(b[n])
            /\ \A u \in Backlog :
                 (\A m \in DOMAIN b : b[m] # u) => \A m \in DOMAIN b : CreatedAt(u) <= CreatedAt(b[m])

\* A row is written only for the alert at the batch position, which then
\* advances by one or ends the pass.
InBatchOrder ==
    classifications' # classifications =>
        /\ AddedRow
        /\ \/ worker'.pc = "sleep"
           \/ worker'.batch = worker.batch /\ worker'.idx = worker.idx + 1

\* C10: a scan with a limit selects min(limit, size of the backlog) distinct
\* unclassified alerts, none older than an unclassified alert left out, in
\* newest-first order, and the pass classifies them in that order.
C10_BacklogSelection == [][ScanSelects /\ InBatchOrder]_vars

\* A scan with limit 1 has left an older unclassified alert for later.
C10_Witness ==
    /\ worker.pc = "llm"
    /\ Len(worker.batch) = 1
    /\ \E u \in Backlog : u # worker.batch[1] /\ CreatedAt(u) < CreatedAt(worker.batch[1])

\* The 10-minute bucket of a timestamp: its minute floored to a multiple of
\* ten, seconds dropped.
Bucket(t) == <<t.hour, t.minute \div BucketMinutes>>

\* Two argument lists without provider id that agree on source, title and
\* area and both carry a timestamp.
SameContent(x, y) ==
    /\ x.provider_id = NoText /\ y.provider_id = NoText
    /\ x.source = y.source /\ x.title = y.title /\ x.area = y.area
    /\ IsSome(x.effective_at) /\ IsSome(y.effective_at)

\* C11: the same source and provider id give the same key whatever title,
\* area and timestamp are; without provider id the same source, title and area
\* with timestamps in one 10-minute bucket give the same key; and a timestamp
\* one second later that lies in the next bucket gives a different key.
C11_KeyDeterministic ==
    (call.fn = "generate_natural_key" /\ IsSome(call.result)) =>
        LET x == call.args[1]
            y == call.args[2]
            kx == Get(call.result)[1]
            ky == Get(call.result)[2]
        IN  /\ (x.provider_id # NoText /\ x.source = y.source /\ x.provider_id = y.provider_id)
                  => kx = ky
            /\ (SameContent(x, y) /\ Bucket(Get(x.effective_at)) = Bucket(Get(y.effective_at)))
                  => kx = ky
            /\ (SameContent(x, y) /\ Get(y.effective_at) = PlusOneSecond(Get(x.effective_at))
                   /\ Bucket(Get(x.effective_at)) # Bucket(Get(y.effective_at)))
                  => kx # ky

\* Keys were generated for the same content at 00:00:00 and at 00:09:59.
C11_Witness ==
    /\ call.fn = "generate_natural_key"
    /\ IsSome(call.result)
    /\ SameContent(call.args[1], call.args[2])
    /\ call.args[1].effective_at = Some(Datetime(0, 0, 0))
    /\ call.args[2].effective_at = Some(Datetime(0, BucketMinutes - 1, 59))
    /\ Get(call.result)[1] = Get(call.result)[2]

\* The High conditions of the rule tier, as the specification lists them.
HighRule(a) ==
    \/ AnyIn(Lower(a.severity), {"extreme", "severe"})
    \/ AnyIn(Lower(a.urgency), {"immediate", "warning"})
    \/ Contains(Lower(a.event_type), "earthquake") /\ ~Contains(Lower(a.severity), "moderate")

\* The Medium conditions.
MediumRule(a) ==
    \/ AnyIn(Lower(a.severity), {"moderate", "advisory"})
    \/ AnyIn(Lower(a.urgency), {"expected", "watch", "moderate"})

\* C12: the rule tier answers for every alert; the answer is High when a High
\* condition holds, otherwise Medium when a Medium condition holds, otherwise
\* Low; and severity Severe with urgency Immediate gives High with the
\* rationale about the severity.
C12_RuleOrder ==
    (call.fn = "classify_by_rules" /\ IsSome(call.result)) =>
        LET a == call.args
            r == Get(call.result)
        IN  /\ r.criticality \in Criticalities
            /\ r.rationale.kind = "string"
            /\ r.criticality = IF HighRule(a) THEN "High"
                               ELSE IF MediumRule(a) THEN "Medium" ELSE "Low"
            /\ (a.severity = "Severe" /\ a.urgency = "Immediate")
                  => r.rationale.text = "Severe severity level detected."

\* An alert that meets a Medium condition and a High condition was rated High.
C12_Witness ==
    /\ call.fn = "classify_by_rules"
    /\ IsSome(call.result)
    /\ call.args.severity = "Moderate"
    /\ call.args.urgency = "Immediate"
    /\ Get(call.result).criticality = "High"

\* C13: the magnitude 3.0 earthquake is stored with severity Minor, and when
\* the rule tier classifies it (no LLM answer) its criticality is Low.
C13_MinorEarthquakeLow ==
    \A i \in DOMAIN alerts :
        (alerts[i].source = "USGS_Earthquakes" /\ alerts[i].provider_id = <<"us7000">>) =>
            /\ alerts[i].severity = "Minor"
            /\ \A j \in DOMAIN classifications :
                 (/\ classifications[j].alert_id = alerts[i].id
                  /\ classifications[j].model_version = RulesFallback)
                     => classifications[j].criticality = "Low"

\* A fraction lies in [-bound, bound].
Within(q, bound) == q.n >= -bound * q.d /\ q.n <= bound * q.d

\* The [lon, lat] lists a geometry offers: its own, or those of its first ring.
Offered(g) ==
    LET c == g.coordinates
        Members(ring) == { ring[i] : i \in DOMAIN ring }
    IN  CASE g.form = "list" -> {c}
          [] g.form = "dict" /\ g.type = "Point" -> {c}
          [] g.form = "dict" /\ g.type = "Polygon" /\ c # << >> -> Members(c[1])
          [] g.form = "dict" /\ g.type = "MultiPolygon" /\ c # << >> /\ c[1] # << >>
                -> Members(c[1][1])
          [] OTHER -> {}

\* A [lon, lat] list within the latitude and longitude ranges.
InRange(p) ==
    Len(p) >= 2 /\ p[2] >= -90 /\ p[2] <= 90 /\ p[1] >= -180 /\ p[1] <= 180

\* C14: what extract_point_from_geometry returns is absent or a pair with
\* latitude in [-90, 90] and longitude in [-180, 180]; a geometry that offers
\* no pair in range yields absent, never a pair moved into range.
C14_CoordinatesInRange ==
    (call.fn = "extract_point_from_geometry" /\ IsSome(call.result)) =>
        LET point == Get(call.result)
        IN  /\ IsSome(point) => Within(Get(point).lat, 90) /\ Within(Get(point).lon, 180)
            /\ (\A p \in Offered(call.args) : ~InRange(p)) => point = None

\* A point with longitude 181 was turned down.
C14_Witness ==
    /\ call.fn = "extract_point_from_geometry"
    /\ call.args = Geometry("dict", "Point", <<LonMax + 1, 38>>)
    /\ call.result = Some(None)

\* What each source of coordinates yields for an item, in the order of
\* priority: the feed's geometry, the side table looked up by the zone or
\* station the item refers to, the side table looked up by a name found in
\* the description, the fixed centre.
SourcesInOrder(x) ==
    IF x.a = "NWS"
    THEN << extract_point_from_geometry(x.item.geometry),
            IF x.item.affectedZones # << >> /\ x.item.affectedZones[1] \in DOMAIN x.cache
            THEN Some(x.cache[x.item.affectedZones[1]]) ELSE None,
            Some(IF x.test_mode THEN VirginiaCenter ELSE AlexandriaCenter) >>
    ELSE << find_station_coordinates(x.item.StartLocationFullName, x.cache),
            find_station_coordinates(x.item.EndLocationFullName, x.cache),
            find_station_coordinates(extract_station_name(x.item.Description), x.cache),
            Some(AlexandriaCenter) >>

\* The item is one that normalization accepts apart from its coordinates.
WellFormed(x) == x.item.shape = "object"

\* C15: a well-formed weather alert or transit incident is normalized to an
\* item whose latitude and longitude are those of the first source, in the
\* order of priority, that yields a point; the fixed centre always yields
\* one, so the item is never absent and never without coordinates.
C15_CoordinatesResolved ==
    (call.fn = "normalize_item" /\ IsSome(call.result) /\ WellFormed(call.args)) =>
        LET sources == SourcesInOrder(call.args)
            first == CHOOSE k \in DOMAIN sources :
                         IsSome(sources[k]) /\ \A j \in 1..(k - 1) : ~IsSome(sources[j])
            normalized == Get(call.result)
        IN  /\ IsSome(normalized)
            /\ Get(normalized).latitude = Some(Get(sources[first]).lat)
            /\ Get(normalized).longitude = Some(Get(sources[first]).lon)

\* A weather alert with a point geometry and a zone in the table kept the
\* point of its geometry.
C15_Witness ==
    /\ call.fn = "normalize_item"
    /\ IsSome(call.result)
    /\ call.args.a = "NWS"
    /\ WellFormed(call.args)
    /\ call.args.item.geometry = Geometry("dict", "Point", <<-77, 38>>)
    /\ call.args.item.affectedZones = <<"zones/VAZ054">>
    /\ call.args.cache # << >>
    /\ Get(Get(call.result)).latitude = Some(Fraction(38, 1))

\* The first ingestion cycle is over: every pipeline has returned.
FirstCycleOver ==
    \/ cycle.n > 1
    \/ cycle.n = 1 /\ cycle.pc = "idle" /\ \A a \in Adapters : run[a].pc = "done"

\* C16: the first ingestion cycle is started by startup_event while no
\* scheduler exists, and the scheduler exists only once that cycle is over, so
\* every cycle the scheduler fires comes after the first.
C16_InitialRunBeforeScheduler ==
    /\ [](app.scheduler # "none" => FirstCycleOver)
    /\ [][(cycle.n = 0 /\ cycle'.n = 1) => (app.pc = "startup" /\ app.scheduler = "none")]_vars

\* The scheduler has fired a cycle after the initial one stored an alert.
C16_Witness ==
    /\ app.scheduler = "running"
    /\ cycle.n = 2
    /\ cycle.pc = "running"
    /\ Len(alerts) = 1

\* A backlog call is started.
CallStarted == app'.calls # app.calls

\* C17: a backlog call that raises does not end the worker: the task stays
\* alive and asleep until its next call, and without cancellation a backlog
\* call is started again and again, forever.
C17_WorkerNeverStops ==
    /\ [](app.task = "running")
    /\ [][WorkerScanFails => worker'.pc = "sleep"]_vars
    /\ []<><<CallStarted>>_vars

\* The worker's first backlog call raised and the worker sleeps.
C17_Witness ==
    /\ app.task = "running"
    /\ app.calls = 1
    /\ worker = IdleWorker

\* shutdown_event has been entered.
ShutdownBegun == app.pc \in {"shutdown", "down"}

\* A backlog call is in flight: the worker is suspended inside it.
InFlight == worker.pc \in {"llm", "resume"}

\* No ingestion cycle starts once shutdown has begun.
NoCycleAfterShutdown == ShutdownBegun => cycle'.n = cycle.n

\* The shutdown handler can complete, whatever the worker does.
HandlerCompletes ==
    (app.pc = "shutdown" /\ NoLoop) => ENABLED (ShutdownCompletes \/ GraceExpires)

\* C18: no ingestion cycle starts after shutdown begins; while the handler
\* waits, the worker's in-flight call can still go on towards its end (the
\* grace period); and the handler can always complete.
C18_GracefulShutdown ==
    /\ [][NoCycleAfterShutdown]_vars
    /\ []((app.pc = "shutdown" /\ InFlight /\ NoLoop) => ENABLED WorkerStep)
    /\ []HandlerCompletes

\* Once shutdown has begun the worker task is cancelled and takes no step but
\* the one that ends it; nothing is classified any more.
AbandonedAtOnce ==
    ShutdownBegun =>
        /\ app.task \in {"cancelling", "cancelled"}
        /\ classifications' = classifications
        /\ worker' = worker \/ (WorkerCancelled /\ worker'.batch = worker.batch)

\* C18, amended: no ingestion cycle starts after shutdown begins; the worker
\* task is cancelled at once, so its in-flight call is abandoned where it is
\* suspended and classifies nothing more; the handler waits a bounded time for
\* the task to end and can always complete.
C18_CancelThenBoundedWait ==
    /\ [][NoCycleAfterShutdown /\ AbandonedAtOnce]_vars
    /\ []HandlerCompletes

\* Shutdown is complete and the call that was in flight was abandoned: the
\* alert it was classifying has no Classification row.
C18_Witness ==
    /\ app.pc = "down"
    /\ worker.pc = "cancelled"
    /\ worker.batch # << >>
    /\ ~Classified(worker.batch[worker.idx])

\* A step that adds alerts adds one row, at the end, inside a pipeline's loop.
CreatedByUpsert ==
    alerts' # alerts =>
        /\ Len(alerts') = Len(alerts) + 1
        /\ \E a \in Adapters : run[a].pc = "loop" /\ run'[a].idx = run[a].idx + 1

\* C19: every step of an ingestion run, of the classification worker and of
\* the backfill command leaves each Alert row already stored in place with
\* all its fields; a row appears only as one insert of a pipeline's upsert,
\* and a step that adds a Classification changes no Alert.
C19_AlertRowsImmutable ==
    [][/\ \A i \in DOMAIN alerts : i \in DOMAIN alerts' /\ alerts'[i] = alerts[i]
       /\ CreatedByUpsert
       /\ classifications' # classifications => alerts' = alerts]_vars

\* Rows were stored, one was classified, and the backfill command has set
\* coordinates on a stored row.
C19_Witness ==
    /\ Len(alerts) >= 2
    /\ classifications # << >>
    /\ call.fn = "backfill_alert_coordinates"
    /\ call.result = "updated"

\* The run of a has attempted every item that has a sibling whose
\* normalization yields nothing.
AttemptedBesideDropped(a) ==
    \A i, j \in DOMAIN ItemsOf(a) :
        (i # j /\ ~IsSome(normalize_item(a, ItemsOf(a)[j], now))) => run[a].idx > i

\* A step of the loop of a takes the next item in extraction order and keeps
\* every row stored before it, whether or not its own insert succeeds.
NextItemInOrder(a) ==
    (run[a].pc = "loop" /\ run'[a] # run[a]) =>
        /\ run'[a].idx = run[a].idx + 1
        /\ Len(alerts') >= Len(alerts)
        /\ SubSeq(alerts', 1, Len(alerts)) = alerts

\* C20: a run attempts the items it extracted in extraction order, whatever
\* happened to the others: when it has returned, every item beside one that
\* was dropped has been attempted, and each attempt moves to the next item
\* and undoes no row stored before it, whether or not its insert succeeds.
C20_ItemFailuresIsolated ==
    /\ [](\A a \in Adapters : run[a].pc = "done" => AttemptedBesideDropped(a))
    /\ [][\A a \in Adapters : NextItemInOrder(a)]_vars

\* C21: upsert_alert reports a failed insert as a duplicate only when the
\* natural key is already stored (and then returns no alert); an insert that
\* fails for any other reason is reported as an error.
C21_FailureKindsDistinguished ==
    (call.fn = "upsert_alert" /\ IsSome(call.result)) =>
        LET x == call.args
            r == Get(call.result)
            dup == UniqueViolation(x.store, KeyOf(x.normalized))
        IN  /\ r.handler = "duplicate" => (dup /\ ~IsSome(r.alert))
            /\ (~IsSome(r.alert) /\ ~dup) => r.handler = "error"

\* The timestamp an item of a carries: "iso", "unparsable" or "absent".
\* A transit incident carries none that normalize_item reads.
TimestampKind(a, item) ==
    CASE a = "NWS" -> item.effective.kind
      [] a = "USGS_Earthquakes" -> IF IsSome(item.time) THEN "iso" ELSE "absent"
      [] a = "USGS_NWIS" -> IF item.values = << >> THEN "iso"
                            ELSE item.values[Len(item.values)].dateTime.kind
      [] a = "NASA_FIRMS" -> item.acq.kind
      [] a = "WMATA" -> "iso"

\* The loop of a takes a well-formed item whose timestamp is missing or does
\* not parse.
TakesDefective(a) ==
    /\ run[a].pc = "loop"
    /\ run'[a] # run[a]
    /\ ItemsOf(a)[run[a].idx].shape = "object"
    /\ TimestampKind(a, ItemsOf(a)[run[a].idx]) # "iso"

DefectiveItemHandled(a) ==
    LET item == ItemsOf(a)[run[a].idx]
        normalized == normalize_item(a, item, now)
        unparsable_reading == a = "USGS_NWIS" /\ TimestampKind(a, item) = "unparsable"
    IN  /\ IsSome(normalized)
        /\ Get(normalized).effective_at = IF unparsable_reading THEN None ELSE Some(now)
        /\ IF unparsable_reading \/ UniqueViolation(alerts, KeyOf(Get(normalized)))
           THEN alerts' = alerts
           ELSE /\ Len(alerts') = Len(alerts) + 1
                /\ alerts'[Len(alerts')].effective_at = Some(now)
                /\ alerts'[Len(alerts')].source = a
        /\ run'[a].idx = run[a].idx + 1

Raced == call.args

\* A step of either loop counts one exactly when it adds a row, and adds a
\* row exactly when its item is insertable and its key is not yet stored.
CountsItsInsert ==
    /\ (call.fn = "run" /\ call'.idx # call.idx) =>
           call'.new_count - call.new_count = Len(alerts') - Len(alerts)
    /\ \A a \in Adapters :
           (run[a].pc = "loop" /\ run'[a] # run[a]) =>
               run'[a].new_count - run[a].new_count = Len(alerts') - Len(alerts)

\* The key of item i of a listing is stored, unless the item is dropped or
\* rejected for its missing time.
KeyStored(a, items, i) ==
    LET normalized == normalize_item(a, items[i], now)
    IN  (IsSome(normalized) /\ ~NotNullViolation(Get(normalized))) =>
            \E j \in DOMAIN alerts : alerts[j].natural_key = KeyOf(Get(normalized))

\* Both processes have returned from the one run each has made.
BothReturned ==
    /\ call.fn = "run"
    /\ call.pc = "done"
    /\ runs = 1
    /\ run[Raced].pc = "done"

\* C23: when two runs of a pipeline interleave on one database, no key is
\* stored twice, each run counts exactly the rows it added, and once both
\* have returned every insertable item of either is stored once and the two
\* returned counts add up to the rows in the store.
C23_ConcurrentInsertsOnce ==
    /\ [](\A i, j \in DOMAIN alerts :
             alerts[i].natural_key = alerts[j].natural_key => i = j)
    /\ [][CountsItsInsert]_vars
    /\ [](BothReturned =>
             /\ \A i \in DOMAIN call.items : KeyStored(Raced, call.items, i)
             /\ \A i \in DOMAIN ItemsOf(Raced) : KeyStored(Raced, ItemsOf(Raced), i)
             /\ run[Raced].ret.raised = FALSE
             /\ Get(run[Raced].ret.value) + Get(call.ret.value) = Len(alerts))

\* Both runs have returned after taking turns on the same items: each
\* inserted one row and met the other's row as a duplicate.
C23_Witness ==
    /\ BothReturned
    /\ call.items = ItemsOf(Raced)
    /\ Len(call.items) = 2
    /\ run[Raced].new_count = 1
    /\ call.new_count = 1

\* C24: every stored Alert eventually has a Classification row.
C24_EveryAlertClassified ==
    \A i \in 1..MaxItems : (i \in DOMAIN alerts) ~> Classified(i)

\* The alert the backlog call is on.
Current == worker.batch[worker.idx]

\* The alerts of the batch, up to the current one, that have a row after the
\* step.
WrittenSoFar ==
    Cardinality({ j \in 1..worker.idx :
                    \E r \in DOMAIN classifications' :
                        classifications'[r].alert_id = alerts[worker.batch[j]].id })

\* The count of the call after the step: the one it returns when the step
\* ends the batch.
CountAfter == IF worker'.pc = "sleep" THEN Get(worker'.ret) ELSE worker'.count

\* classify_alert raises for the current alert: no row, the alert stays
\* unclassified, and the loop goes to the next alert of the batch.
RaiseIsolated ==
    (worker.pc = "resume" /\ worker'.pc \in {"llm", "sleep"} /\
     classify_alert(alerts[Current], Get(worker.content), classifications).raised) =>
        /\ classifications' = classifications
        /\ ~Classified(alerts[Current].id)
        /\ worker.idx < Len(worker.batch) =>
               (worker'.pc = "llm" /\ worker'.idx = worker.idx + 1)

\* The worker is cancelled inside a call: no row is written and the current
\* alert stays unclassified.
CancelAbandons ==
    (worker.pc \in {"llm", "resume"} /\ worker'.pc = "cancelled") =>
        /\ classifications' = classifications
        /\ ~Classified(alerts[Current].id)

\* C25: in a backlog call an alert whose classification raises, or whose
\* call is cancelled, gets no row and stays in the backlog; the alerts after
\* one that raised are still attempted; and the count of the call is the
\* number of rows it has written, up to the count it returns.
C25_FailureKeepsAlertInBacklog ==
    [][/\ RaiseIsolated
       /\ CancelAbandons
       /\ (worker.pc = "resume" /\ worker'.pc \in {"llm", "sleep"}) =>
              CountAfter = WrittenSoFar]_vars

\* A call over two alerts is on the second: the first (the newer alert)
\* raised, has no row and was not counted.
C25_Witness ==
    /\ worker.pc \in {"llm", "resume"}
    /\ worker.batch = <<2, 1>>
    /\ worker.idx = 2
    /\ worker.count = 0
    /\ ~Classified(2)

\* The side table is being fetched or has been.
FetchingZones == call.fn = "_fetch_zone_coordinates_batch"

\* C26: at most 5 zone lookups are in flight; lookups are started only when
\* none is in flight; and what the call returns holds exactly the zones whose
\* lookup yielded a point, whatever happened to the others.
C26_BoundedBatchesIsolatedFailures ==
    /\ [](FetchingZones => Cardinality(call.inflight) <= 5)
    /\ [][(FetchingZones /\ ~(call'.inflight \subseteq call.inflight)) =>
              call.inflight = {}]_vars
    /\ []((FetchingZones /\ call.pc = "returned") =>
             DOMAIN call.zone_coords =
                 { u \in DOMAIN call.outcome : call.outcome[u] = "point" })

\* The call has returned after two gathers: a lookup of the first failed, and
\* a zone of the first and the zone of the second are in the table.
C26_Witness ==
    /\ FetchingZones
    /\ call.pc = "returned"
    /\ Len(call.args) = 6
    /\ call.outcome[1] = "error"
    /\ DOMAIN call.zone_coords = {2, 6}

\* The latitude and longitude columns of a stored row; absent when the row
\* has no such columns.
StoredPair(row) ==
    IF {"latitude", "longitude"} \subseteq DOMAIN row
    THEN <<row.latitude, row.longitude>>
    ELSE <<None, None>>

\* C27: the row upsert_alert inserts for an item holds the latitude and
\* longitude that normalize_item yielded for it.
C27_CoordinatesStored ==
    (call.fn = "normalize_item" /\ alerts # << >>) =>
        StoredPair(alerts[1]) = << Get(Get(call.result)).latitude,
                                   Get(Get(call.result)).longitude >>

\* The vertices of a ring that are [lon, lat] lists in range, in ring order.
ValidVertices(ring) == SelectSeq(ring, InRange)

\* The sum of member k over the first m vertices.
RECURSIVE Total(_, _, _)
Total(vertices, k, m) ==
    IF m = 0 THEN 0 ELSE vertices[m][k] + Total(vertices, k, m - 1)

\* The fraction q is the mean of member k of the vertices.
IsMean(q, vertices, k) ==
    q.n * Len(vertices) = Total(vertices, k, Len(vertices)) * q.d

\* The point is the arithmetic centroid of the vertices.
IsCentroid(point, vertices) ==
    /\ IsSome(point)
    /\ IsMean(Get(point).lat, vertices, 2)
    /\ IsMean(Get(point).lon, vertices, 1)

\* The point is the vertex itself.
IsVertex(point, vertex) ==
    /\ IsSome(point)
    /\ IsMean(Get(point).lat, <<vertex>>, 2)
    /\ IsMean(Get(point).lon, <<vertex>>, 1)

\* The outer ring of the polygon a Polygon or MultiPolygon geometry names
\* first; no ring when it names none.
OuterRing(g) ==
    CASE g.form = "dict" /\ g.type = "Polygon" /\ g.coordinates # << >>
            -> Some(g.coordinates[1])
      [] g.form = "dict" /\ g.type = "MultiPolygon" /\ g.coordinates # << >>
                         /\ g.coordinates[1] # << >>
            -> Some(g.coordinates[1][1])
      [] OTHER -> None

ReadingTime(item) ==
    IF item.shape = "object" /\ item.values # << >>
    THEN parse_datetime(item.values[Len(item.values)].dateTime)
    ELSE None

\* Two series whose latest readings were observed in different 10-minute
\* buckets.
DistinctReadings(x, y) ==
    /\ IsSome(ReadingTime(x))
    /\ IsSome(ReadingTime(y))
    /\ Bucket(Get(ReadingTime(x))) # Bucket(Get(ReadingTime(y)))

\* A river-gauge row is stored with the reading time t.
ReadingStored(t) ==
    \E r \in DOMAIN alerts :
        alerts[r].source = "USGS_NWIS" /\ alerts[r].effective_at = Some(t)

\* C29: readings observed in different 10-minute buckets get different
\* natural keys, and once the run over them has returned each of them is
\* stored as an Alert of its own.
C29_DistinctReadingsDistinctAlerts ==
    run["USGS_NWIS"].pc = "done" =>
        \A i, j \in DOMAIN ItemsOf("USGS_NWIS") :
            LET x == ItemsOf("USGS_NWIS")[i]
                y == ItemsOf("USGS_NWIS")[j]
            IN  DistinctReadings(x, y) =>
                    /\ KeyOf(Get(normalize_item("USGS_NWIS", x, now))) #
                           KeyOf(Get(normalize_item("USGS_NWIS", y, now)))
                    /\ ReadingStored(Get(ReadingTime(x)))
                    /\ ReadingStored(Get(ReadingTime(y)))

\* ------------------------------------------------------------------ C30
\* The keywords the mapping lists for each severity.
SevereKeywords == {"suspended", "major delay", "station closure"}

ModerateKeywords == {"delay", "single tracking", "disabled train"}

\* The severity the listed keywords call for.
KeywordSeverity(incident_type) ==
    IF AnyIn(Lower(incident_type), SevereKeywords) THEN "Severe"
    ELSE IF AnyIn(Lower(incident_type), ModerateKeywords) THEN "Moderate"
    ELSE "Minor"

\* C30: an incident type holding a Severe keyword is mapped to Severe, one
\* holding a Moderate keyword and no Severe keyword to Moderate, and every
\* other type to Minor.
C30_SeverityHonoursKeywords ==
    (call.fn = "normalize_item" /\ IsSome(call.result)) =>
        LET yielded == Get(call.result)
        IN  /\ IsSome(yielded)
            /\ Get(yielded).severity = KeywordSeverity(call.args.item.IncidentType)

====
